---- MODULE Spec2Model ----
(***************************************************************************)
(* JJY time-signal transmitter (ESP32-C3 Arduino sketches).                *)
(*                                                                         *)
(* Three sketches share one scheduler and one modulator built on           *)
(* esp_timer:                                                              *)
(*   "base"   src/jjytransmitter.ino                                       *)
(*   "drift"  src/unnamed/part_000          (reset-cause check added)      *)
(*   "prod"   src/unnamed/part_001:348-830  (drift + remote log upload)    *)
(* and an earlier one drives the carrier from a Ticker and never enters    *)
(* deep sleep:                                                             *)
(*   "ticker" src/unnamed/part_001:1-346                                   *)
(*                                                                         *)
(* Time.  `now` is the wall clock in whole seconds (UTC) counted from      *)
(* 00:00:00 UTC of the base date 2025-12-30; `phase` is the 100 ms         *)
(* interval inside the second.  Local time is UTC + GMT_OFFSET_SEC.        *)
(***************************************************************************)
EXTENDS Integers, Sequences, FiniteSets, TLC

---------------------------------------------------------------------------
(* Program constants                                                       *)

BOOT_TX_MINUTES == 10
NIGHT_TX_MINUTES == 15
NIGHT_START_HOUR == 0
NIGHT_END_HOUR == 5
WAKEUP_HOUR == 23
WAKEUP_MIN == 50
TIME_SHIFT_SEC == 0
GMT_OFFSET_SEC == 9 * 3600
DUTY_50 == 127
CODE_MARKER == 2
CODE_LOW == 0
CODE_HIGH == 1
CODE_UNSET == -1
NTP_FAIL_SLEEP_SEC == 60 * 60
TIMER_PERIOD_US == 100000
TICKER_CODE_MARKER == 255
TICKER_IDLE_SLEEP_SEC == 15

Variants == {"base", "drift", "prod"}

HasWakeFlag(v) == v \in {"drift", "prod"}

---------------------------------------------------------------------------
(* Bounds of the exploration                                               *)

MaxDays == 2
MaxLag == 1
MaxSetupSecs == 2
StrideLong == 300
MaxIsrSecs == 3
MaxFaults == 1

DaySecs == 24 * 3600
Horizon == MaxDays * DaySecs

---------------------------------------------------------------------------
(* libc time conversions                                                   *)

BaseYear == 2025
BaseYday == 363
BaseWday == 2

IsLeap(y) == (y % 4 = 0 /\ y % 100 # 0) \/ y % 400 = 0

YearDays(y) == IF IsLeap(y) THEN 366 ELSE 365

RECURSIVE NormDate(_, _)
NormDate(y, d) ==
    IF d >= YearDays(y) THEN NormDate(y + 1, d - YearDays(y))
    ELSE [year |-> y, yday |-> d]

\* struct tm for t seconds after the base instant, no zone shift applied
TmOf(t) ==
    LET dayno == t \div DaySecs
        sod == t % DaySecs
        date == NormDate(BaseYear, BaseYday + dayno)
    IN [dayno |-> dayno,
        tm_year |-> date.year - 1900,
        tm_yday |-> date.yday,
        tm_wday |-> (BaseWday + dayno) % 7,
        tm_hour |-> sod \div 3600,
        tm_min |-> (sod % 3600) \div 60,
        tm_sec |-> sod % 60]

\* configTime(GMT_OFFSET_SEC, ...) sets the zone in the base sketch only;
\* the other two never set it and add the offset by hand.
TzOffset(v) == IF v = "base" THEN GMT_OFFSET_SEC ELSE 0

LocaltimeR(v, t) == TmOf(t + TzOffset(v))

Mktime(v, tm) ==
    tm.dayno * DaySecs + tm.tm_hour * 3600 + tm.tm_min * 60 + tm.tm_sec
        - TzOffset(v)

\* the value handed to localtime_r at the top of loop()
LoopTimeArg(v, t) == IF v = "base" THEN t ELSE t + GMT_OFFSET_SEC

---------------------------------------------------------------------------
(* BCD / parity codec and frame encoder                                    *)

\* the number itself, not packed into decimal digits
int3bcdBinary(a) == a

int3bcd(a) == (a % 10) + ((a \div 10) % 10) * 16 + ((a \div 100) % 10) * 256

RECURSIVE ShiftSum(_, _)
ShiftSum(a, i) == IF i >= 8 THEN 0 ELSE (a \div (2 ^ i)) + ShiftSum(a, i + 1)

\* the lowest bit alone
parity8Bit0(a) == a % 2

parity8(a) == (a + ShiftSum(a, 1)) % 2

\* (x & mask) != 0 for a one-bit mask
BitSet(x, mask) == (x \div mask) % 2 = 1

Bit(x, mask) == IF BitSet(x, mask) THEN CODE_HIGH ELSE CODE_LOW

\* the masks of seconds 1 and 2 exchanged
MinuteMaskSwapped(sec) ==
    CASE sec = 1 -> 32 [] sec = 2 -> 64 [] sec = 3 -> 16 [] sec = 5 -> 8
      [] sec = 6 -> 4 [] sec = 7 -> 2 [] OTHER -> 1

MinuteMask(sec) ==
    CASE sec = 1 -> 64 [] sec = 2 -> 32 [] sec = 3 -> 16 [] sec = 5 -> 8
      [] sec = 6 -> 4 [] sec = 7 -> 2 [] OTHER -> 1

HourMask(sec) ==
    CASE sec = 12 -> 32 [] sec = 13 -> 16 [] sec = 15 -> 8 [] sec = 16 -> 4
      [] sec = 17 -> 2 [] OTHER -> 1

\* the masks of seconds 22 and 23 exchanged
DayMaskSwapped(sec) ==
    CASE sec = 22 -> 256 [] sec = 23 -> 512 [] sec = 25 -> 128
      [] sec = 26 -> 64 [] sec = 27 -> 32 [] sec = 28 -> 16 [] sec = 30 -> 8
      [] sec = 31 -> 4 [] sec = 32 -> 2 [] OTHER -> 1

DayMask(sec) ==
    CASE sec = 22 -> 512 [] sec = 23 -> 256 [] sec = 25 -> 128
      [] sec = 26 -> 64 [] sec = 27 -> 32 [] sec = 28 -> 16 [] sec = 30 -> 8
      [] sec = 31 -> 4 [] sec = 32 -> 2 [] OTHER -> 1

YearMask(sec) ==
    CASE sec = 41 -> 128 [] sec = 42 -> 64 [] sec = 43 -> 32 [] sec = 44 -> 16
      [] sec = 45 -> 8 [] sec = 46 -> 4 [] sec = 47 -> 2 [] OTHER -> 1

WdayMask(sec) == CASE sec = 50 -> 4 [] sec = 51 -> 2 [] OTHER -> 1

\* seconds 1..8 without the reserved second 4
MinuteFieldNoReserved(sec, m) == Bit(m, MinuteMask(sec))

\* seconds 1..8: the minute, with second 4 reserved
MinuteField(sec, m) == IF sec = 4 THEN CODE_LOW ELSE Bit(m, MinuteMask(sec))

\* seconds 12..18: the hour, with second 14 reserved
HourField(sec, h) == IF sec = 14 THEN CODE_LOW ELSE Bit(h, HourMask(sec))

\* seconds 22..33: the day of the year, with second 24 reserved
DayField(sec, d) == IF sec = 24 THEN CODE_LOW ELSE Bit(d, DayMask(sec))

\* the marker test without second 59
IsMarkerSecNo59(sec) == sec \in {0, 9, 19, 29, 39, 49}

IsMarkerSec(sec) ==
    sec = 0 \/ sec = 9 \/ sec = 19 \/ sec = 29 \/ sec = 39 \/ sec = 49
        \/ sec = 59

\* the encoder on the broken-down time t_enc
EncodeTm(t_enc) ==
    LET h == int3bcd(t_enc.tm_hour)
        m == int3bcd(t_enc.tm_min)
        y == int3bcd((t_enc.tm_year + 1900) % 100)
        d == int3bcd(t_enc.tm_yday + 1)
        w == t_enc.tm_wday
        sec == t_enc.tm_sec
    IN IF IsMarkerSec(sec) THEN CODE_MARKER
       ELSE IF sec >= 1 /\ sec <= 8 THEN MinuteField(sec, m)
       ELSE IF sec >= 12 /\ sec <= 18 THEN HourField(sec, h)
       ELSE IF sec >= 22 /\ sec <= 33 THEN DayField(sec, d)
       ELSE IF sec = 36 THEN (IF parity8(h) # 0 THEN CODE_HIGH ELSE CODE_LOW)
       ELSE IF sec = 37 THEN (IF parity8(m) # 0 THEN CODE_HIGH ELSE CODE_LOW)
       ELSE IF sec >= 41 /\ sec <= 48 THEN Bit(y, YearMask(sec))
       ELSE IF sec >= 50 /\ sec <= 52 THEN Bit(w, WdayMask(sec))
       ELSE CODE_LOW

calculateJJYCodeForTime(v, t) == EncodeTm(LocaltimeR(v, t))

---------------------------------------------------------------------------
(* State                                                                   *)

VARIABLES
    variant,            \* which sketch runs
    currentState,       \* the sketch's SystemState
    pc,                 \* "setup" | "loop" | "light" | "deep"
    resetReason,        \* esp_reset_reason(): "poweron" | "deepsleep" | "sw"
    rtcValid,           \* the RTC holds a time later than 1600000000
    synced,             \* SNTP completed in this boot
    now,                \* wall clock, whole seconds
    phase,              \* 100 ms interval inside the second, 0..9
    uptime,             \* (millis() - bootTime) / 1000, capped
    isScheduledWake,
    wokeFrom,           \* what armed the deep sleep this boot woke from
    faults,             \* WiFi, SNTP and LEDC failures so far
    jjyTimerHandle,     \* TRUE: a started periodic timer; FALSE: nullptr
    pwmAttached,        \* LEDC attached to PIN_ANT
    antDuty,            \* last ledcWrite(PIN_ANT, .)
    pinAnt,             \* GPIO level of PIN_ANT when LEDC is detached
    pinLed,
    currentSecondCode,
    currentSlot100ms,
    lastSec,            \* loop()'s static; -1 stands for its initial 0
    timeinfo,           \* the global struct tm
    wakeAt,             \* when the armed wake timer fires
    fired,              \* the timer has fired in this 100 ms interval
    looped,             \* loop() has run in this interval / second
    loopGap,            \* intervals since loop() last ran
    it,                 \* what the last loop() iteration saw and did
    codeFor,            \* the second currentSecondCode was computed for
    fire,               \* what the last onTimer() read and wrote
    run,                \* firings since the last subslot 0
    frame               \* the symbols of one minute, by second

hwVars == <<jjyTimerHandle, pwmAttached, antDuty, pinAnt, pinLed>>
isrVars == <<currentSlot100ms, fire, run>>
symVars == <<currentSecondCode, lastSec, codeFor, frame>>
bootVars == <<variant, currentState, resetReason, rtcValid, synced, isScheduledWake,
             wokeFrom, faults>>
clockVars == <<now, phase, uptime>>
stepVars == <<fired, looped, loopGap>>

vars == <<variant, currentState, pc, resetReason, rtcValid, synced, now, phase, uptime,
          isScheduledWake, wokeFrom, faults,
          jjyTimerHandle, pwmAttached, antDuty, pinAnt,
          pinLed, currentSecondCode, currentSlot100ms, lastSec, timeinfo,
          wakeAt, fired, looped, loopGap, it, codeFor, fire, run, frame>>

UptimeCap == BOOT_TX_MINUTES * 60

Min(a, b) == IF a < b THEN a ELSE b

\* an uptime that starts again from 0 a second after the boot test
UpWrapping(u, d) == (u + d) % (UptimeCap + 1)

Up(u, d) == Min(u + d, UptimeCap)

TmZero == [dayno |-> 0, tm_year |-> 0, tm_yday |-> 0, tm_wday |-> 0,
           tm_hour |-> 0, tm_min |-> 0, tm_sec |-> 0]

NoIter == [window |-> "NONE", up |-> 0, wake |-> FALSE, reason |-> "none",
           handle |-> FALSE,
           now |-> -1, now2 |-> -1, kind |-> "none", secs |-> 0,
           stopped |-> FALSE, started |-> FALSE]

NoFire == [slot |-> -1, code |-> CODE_UNSET, codeFor |-> -1, at |-> -1,
           duty |-> 0, first |-> FALSE]

NoRun == [sym |-> CODE_UNSET, len |-> 0, on |-> 0, prefix |-> TRUE]

Hw == [jjyTimerHandle |-> jjyTimerHandle, pwmAttached |-> pwmAttached,
       antDuty |-> antDuty, pinAnt |-> pinAnt, pinLed |-> pinLed]

SetHw(m) ==
    /\ jjyTimerHandle' = m.jjyTimerHandle
    /\ pwmAttached' = m.pwmAttached
    /\ antDuty' = m.antDuty
    /\ pinAnt' = m.pinAnt
    /\ pinLed' = m.pinLed

\* the outputs after a chip reset followed by setup()'s pinMode/digitalWrite
HwReset == [jjyTimerHandle |-> FALSE, pwmAttached |-> FALSE, antDuty |-> 0,
            pinAnt |-> "LOW", pinLed |-> "HIGH"]

\* the Ticker sketch has one pin, PIN_TRX, which setup() drives high
HwResetTicker == [HwReset EXCEPT !.pinAnt = "HIGH"]

HwResetOf(v) == IF v = "ticker" THEN HwResetTicker ELSE HwReset

\* the initializer of currentState
InitialState(v) == IF v = "ticker" THEN "STATE_BOOT" ELSE "STATE_BOOT_SYNC"

CarrierOn == pwmAttached /\ antDuty > 0

---------------------------------------------------------------------------
(* Modulator: startTransmission / stopTransmission / onTimer               *)

\* stops and deletes the timer but leaves LEDC attached
stopTransmissionTimerOnly(m) ==
    IF m.jjyTimerHandle
    THEN [m EXCEPT !.jjyTimerHandle = FALSE, !.pinLed = "HIGH"]
    ELSE m

\* detaches LEDC but leaves the timer running
stopTransmissionPwmOnly(m) ==
    IF m.jjyTimerHandle
    THEN [m EXCEPT !.pwmAttached = FALSE, !.pinAnt = "LOW", !.pinLed = "HIGH"]
    ELSE m

stopTransmission(m) ==
    IF m.jjyTimerHandle
    THEN [m EXCEPT !.jjyTimerHandle = FALSE, !.pwmAttached = FALSE,
                   !.pinAnt = "LOW", !.pinLed = "HIGH"]
    ELSE m

\* startTransmission with ledcAttach succeeding: attach, ledcWrite(0),
\* wait for the second boundary, create and start the periodic timer
startTransmission(m) ==
    IF m.jjyTimerHandle THEN m
    ELSE [m EXCEPT !.pwmAttached = TRUE, !.antDuty = 0,
                   !.jjyTimerHandle = TRUE]

\* the wait one microsecond short
usecToWaitShort(usec) == 999999 - usec

\* microseconds startTransmission busy-waits when tv_usec = usec
usecToWait(usec) == 1000000 - usec

\* the wrap taken one firing late
SlotUsedLate(slot) == IF slot > 10 THEN 0 ELSE slot

SlotUsed(slot) == IF slot >= 10 THEN 0 ELSE slot

DutyInclusive(code, slot) ==
    IF code = CODE_MARKER THEN (IF slot <= 2 THEN DUTY_50 ELSE 0)
    ELSE IF code = CODE_HIGH THEN (IF slot <= 5 THEN DUTY_50 ELSE 0)
    ELSE IF code = CODE_LOW THEN (IF slot <= 8 THEN DUTY_50 ELSE 0)
    ELSE 0

\* a marker's pulse cut to one subslot
DutyShortMarker(code, slot) ==
    IF code = CODE_MARKER THEN (IF slot < 1 THEN DUTY_50 ELSE 0)
    ELSE IF code = CODE_HIGH THEN (IF slot < 5 THEN DUTY_50 ELSE 0)
    ELSE IF code = CODE_LOW THEN (IF slot < 8 THEN DUTY_50 ELSE 0)
    ELSE 0

Duty(code, slot) ==
    IF code = CODE_MARKER THEN (IF slot < 2 THEN DUTY_50 ELSE 0)
    ELSE IF code = CODE_HIGH THEN (IF slot < 5 THEN DUTY_50 ELSE 0)
    ELSE IF code = CODE_LOW THEN (IF slot < 8 THEN DUTY_50 ELSE 0)
    ELSE 0

NextRun(r, slot, code, duty) ==
    LET o == IF duty > 0 THEN 1 ELSE 0
    IN IF slot = 0 THEN [sym |-> code, len |-> 1, on |-> o, prefix |-> TRUE]
       ELSE IF r.len > 0 /\ code = r.sym
            THEN [sym |-> code, len |-> r.len + 1, on |-> r.on + o,
                  prefix |-> r.prefix /\ (duty > 0 => r.on = r.len)]
            ELSE NoRun

\* a handler that also clears the symbol it has consumed
onTimerWritesSymbol ==
    LET slot == SlotUsed(currentSlot100ms)
        duty == Duty(currentSecondCode, slot)
    IN /\ antDuty' = duty
       /\ pinLed' = IF duty > 0 THEN "HIGH" ELSE "LOW"
       /\ currentSlot100ms' = slot + 1
       /\ currentSecondCode' = IF slot = 9 THEN CODE_UNSET ELSE currentSecondCode
       /\ fire' = [slot |-> slot, code |-> currentSecondCode,
                   codeFor |-> codeFor, at |-> now, duty |-> duty,
                   first |-> (fire.at < 0)]
       /\ run' = NextRun(run, slot, currentSecondCode, duty)
       /\ UNCHANGED <<jjyTimerHandle, pwmAttached, pinAnt>>
       /\ UNCHANGED <<pc, bootVars, clockVars, lastSec, codeFor, frame,
                      timeinfo, wakeAt, it>>

onTimer ==
    LET slot == SlotUsed(currentSlot100ms)
        duty == Duty(currentSecondCode, slot)
    IN /\ antDuty' = duty
       /\ pinLed' = IF duty > 0 THEN "HIGH" ELSE "LOW"
       /\ currentSlot100ms' = slot + 1
       /\ fire' = [slot |-> slot, code |-> currentSecondCode,
                   codeFor |-> codeFor, at |-> now, duty |-> duty,
                   first |-> (fire.at < 0)]
       /\ run' = NextRun(run, slot, currentSecondCode, duty)
       /\ UNCHANGED <<jjyTimerHandle, pwmAttached, pinAnt>>
       /\ UNCHANGED <<pc, bootVars, clockVars, symVars, timeinfo, wakeAt, it>>

---------------------------------------------------------------------------
(* Scheduler: loop(), enterLightSleep, enterDaytimeDeepSleep               *)

\* the window compared in minutes
InBootWindowMinutes(u) == u < BOOT_TX_MINUTES

InBootWindow(u) == u * 1000 < BOOT_TX_MINUTES * 60 * 1000

BootTest(v, wake, u) ==
    IF HasWakeFlag(v) THEN ~wake /\ InBootWindow(u) ELSE InBootWindow(u)

\* the night window without its first hour
InNightFromOne(tm) == tm.tm_hour >= 1 /\ tm.tm_hour < NIGHT_END_HOUR

\* the night window without its end
InNightNoEnd(tm) == tm.tm_hour >= NIGHT_START_HOUR

InNight(tm) == tm.tm_hour >= NIGHT_START_HOUR /\ tm.tm_hour < NIGHT_END_HOUR

InPreMidnightStrict(tm) == tm.tm_hour = 23 /\ tm.tm_min > WAKEUP_MIN

InPreMidnight(tm) == tm.tm_hour = 23 /\ tm.tm_min >= WAKEUP_MIN

NightWindowInclusive(tm) ==
    IF tm.tm_min <= NIGHT_TX_MINUTES THEN "NIGHT_TRANSMIT" ELSE "NIGHT_IDLE"

NightWindow(tm) ==
    IF tm.tm_min < NIGHT_TX_MINUTES THEN "NIGHT_TRANSMIT" ELSE "NIGHT_IDLE"

\* jjytransmitter.ino: night window first, then the pre-midnight buffer
WindowBase(tm, boot) ==
    IF boot THEN "BOOT_TEST"
    ELSE IF InNight(tm) THEN NightWindow(tm)
    ELSE IF InPreMidnight(tm) THEN "PRE_MIDNIGHT_HOLD"
    ELSE "DAYTIME_SUSPEND"

\* drift-fix and production sketches: pre-midnight buffer first
WindowDrift(tm, boot) ==
    IF boot THEN "BOOT_TEST"
    ELSE IF InPreMidnight(tm) THEN "PRE_MIDNIGHT_HOLD"
    ELSE IF InNight(tm) THEN NightWindow(tm)
    ELSE "DAYTIME_SUSPEND"

Window(v, tm, boot) ==
    IF v = "base" THEN WindowBase(tm, boot) ELSE WindowDrift(tm, boot)

secRemainingFullMinute(tm) == (60 - tm.tm_min) * 60 + (60 - tm.tm_sec)

\* the seconds left in the minute only
secRemainingWithinMinute(tm) == 59 - tm.tm_sec

secRemaining(tm) == (59 - tm.tm_min) * 60 + (60 - tm.tm_sec)

TargetTmKeepsSeconds(tm) ==
    [tm EXCEPT !.tm_hour = WAKEUP_HOUR, !.tm_min = WAKEUP_MIN]

TargetTm(tm) ==
    [tm EXCEPT !.tm_hour = WAKEUP_HOUR, !.tm_min = WAKEUP_MIN, !.tm_sec = 0]

RolloverStrict(target, t) == IF target < t THEN target + 24 * 3600 ELSE target

Rollover(target, t) == IF target <= t THEN target + 24 * 3600 ELSE target

\* secondsToSleep of enterDaytimeDeepSleep; tminfo is the global timeinfo,
\* now2 the clock read inside the function
secondsToSleep(v, tminfo, now2) ==
    IF v = "base"
    THEN Rollover(Mktime(v, TargetTm(tminfo)), now2) - now2
    ELSE LET jst_now == now2 + GMT_OFFSET_SEC
         IN Rollover(Mktime(v, TargetTm(LocaltimeR(v, jst_now))), jst_now)
                - jst_now

Lag2Set(v) == IF v = "prod" THEN 0 .. MaxLag ELSE {0}

\* what a fallible call may return: failures are counted and bounded
Outcomes == IF faults < MaxFaults THEN BOOLEAN ELSE {TRUE}

\* the restart call returns and startTransmission goes on to start the timer
RebootSkipped(reason, from, t) ==
    /\ SetHw([Hw EXCEPT !.jjyTimerHandle = TRUE])
    /\ UNCHANGED <<pc, resetReason, wokeFrom, now, phase, uptime,
                   isScheduledWake, synced, currentState, currentSecondCode,
                   currentSlot100ms, lastSec, codeFor, timeinfo, fire, run,
                   variant, rtcValid, frame>>

\* memory and outputs after any chip reset
Reboot(reason, from, t) ==
    /\ pc' = "setup"
    /\ resetReason' = reason
    /\ wokeFrom' = from
    /\ now' = t
    /\ phase' = 0
    /\ uptime' = 0
    /\ isScheduledWake' = FALSE
    /\ synced' = FALSE
    /\ SetHw(HwResetOf(variant))
    /\ currentState' = InitialState(variant)
    /\ currentSecondCode' = CODE_UNSET
    /\ frame' = <<>>
    /\ currentSlot100ms' = 0
    /\ lastSec' = -1
    /\ codeFor' = -1
    /\ timeinfo' = TmZero
    /\ fire' = NoFire
    /\ run' = NoRun
    /\ UNCHANGED <<variant, rtcValid>>

\* enterDaytimeDeepSleep from hardware state m
enterDaytimeDeepSleep(m, rec, tminfo) ==
    \E lag1 \in 0 .. MaxLag, lag2 \in Lag2Set(variant) :
        LET now2 == now + lag1
            secs == secondsToSleep(variant, tminfo, now2)
        IN /\ SetHw(m)
           /\ pc' = "deep"
           /\ now' = now2 + lag2
           /\ wakeAt' = now2 + lag2 + secs
           /\ uptime' = Up(uptime, lag1 + lag2)
           /\ it' = [rec EXCEPT !.kind = "deep", !.secs = secs,
                                !.now2 = now2]
           /\ UNCHANGED phase

\* enterLightSleep without its first line
enterLightSleepNoGuard(m, rec, seconds) ==
    /\ SetHw([m EXCEPT !.pinLed = "HIGH"])
    /\ pc' = "light"
    /\ wakeAt' = now + seconds
    /\ it' = [rec EXCEPT !.kind = "light", !.secs = seconds]
    /\ UNCHANGED clockVars

\* enterLightSleep(seconds) from hardware state m
enterLightSleep(m, rec, seconds) ==
    IF seconds < 1
    THEN /\ SetHw(m)
         /\ it' = [rec EXCEPT !.kind = "light", !.secs = seconds]
         /\ UNCHANGED <<pc, wakeAt, clockVars>>
    ELSE /\ SetHw([m EXCEPT !.pinLed = "HIGH"])
         /\ pc' = "light"
         /\ wakeAt' = now + seconds
         /\ it' = [rec EXCEPT !.kind = "light", !.secs = seconds]
         /\ UNCHANGED clockVars

\* the transmit branches: if (!jjyTimerHandle) startTransmission(); delay(100)
Transmit(rec) ==
    /\ SetHw(startTransmission(Hw))
    /\ it' = [rec EXCEPT !.started = ~jjyTimerHandle]
    /\ IF jjyTimerHandle
       THEN UNCHANGED clockVars
       ELSE /\ now' = now + 1
            /\ phase' = 0
            /\ uptime' = Up(uptime, 1)
    /\ UNCHANGED <<pc, wakeAt>>

\* the refresh test taken on the minute instead of the second
secondChangedByMinute(t, last) == t \div 60 # last \div 60

\* loop()'s test for refreshing the symbol: now != lastSec
secondChanged(t, last) == t # last

loop ==
    LET v == variant
        arg == LoopTimeArg(v, now)
        tm == LocaltimeR(v, arg)
        fresh == secondChanged(now, lastSec)
        boot == BootTest(v, isScheduledWake, uptime)
        w == Window(v, tm, boot)
        rec == [window |-> w, up |-> uptime, wake |-> isScheduledWake,
                reason |-> resetReason, handle |-> jjyTimerHandle, now |-> now, now2 |-> -1,
                kind |-> "none", secs |-> 0,
                stopped |-> jjyTimerHandle /\ w \notin {"BOOT_TEST", "NIGHT_TRANSMIT"},
                started |-> FALSE]
        tx == w \in {"BOOT_TEST", "NIGHT_TRANSMIT"}
    IN \E attach \in Outcomes :
        IF tx /\ ~jjyTimerHandle /\ ~attach
        THEN \* ledcAttach failed: ESP.restart()
             /\ Reboot("sw", "none", now)
             /\ faults' = faults + 1
             /\ it' = [rec EXCEPT !.kind = "restart"]
             /\ UNCHANGED wakeAt
        ELSE /\ timeinfo' = tm
             /\ lastSec' = now
             /\ currentSecondCode' =
                    IF fresh THEN calculateJJYCodeForTime(v, arg + TIME_SHIFT_SEC)
                    ELSE currentSecondCode
             /\ codeFor' = IF fresh THEN now + TIME_SHIFT_SEC ELSE codeFor
             /\ IF tx THEN Transmit(rec)
                ELSE IF w \in {"NIGHT_IDLE", "PRE_MIDNIGHT_HOLD"}
                THEN enterLightSleep(stopTransmission(Hw), rec, secRemaining(tm))
                ELSE enterDaytimeDeepSleep(stopTransmission(Hw), rec, tm)
             /\ run' = IF tx /\ jjyTimerHandle THEN run ELSE NoRun
             /\ fire' = IF tx /\ jjyTimerHandle THEN fire ELSE NoFire
             /\ UNCHANGED <<currentSlot100ms, bootVars, frame>>

---------------------------------------------------------------------------
(* setup()                                                                 *)

\* d: seconds spent in WiFi and SNTP after bootTime = millis();
\* wifi: FALSE when the captive portal times out; ntp: SNTP completes
setup ==
    \E d \in 1 .. MaxSetupSecs, wifi \in Outcomes, ntp \in Outcomes,
       attach \in Outcomes :
        LET flag == HasWakeFlag(variant) /\ resetReason = "deepsleep"
            t1 == now + 1 + d
            \* jjytransmitter.ino also accepts `now > 1600000000L`
            accepted == ntp \/ (variant = "base" /\ rtcValid)
            boot == BootTest(variant, flag, d)
        IN IF ~wifi
           THEN /\ Reboot("sw", "none", t1)
                /\ faults' = faults + 1
                /\ it' = NoIter
                /\ UNCHANGED wakeAt
           ELSE IF ~accepted
           THEN \* esp_sleep_enable_timer_wakeup(1 h); esp_deep_sleep_start()
                /\ pc' = "deep"
                /\ wakeAt' = t1 + NTP_FAIL_SLEEP_SEC
                /\ now' = t1
                /\ uptime' = d
                /\ isScheduledWake' = flag
                /\ it' = [NoIter EXCEPT !.kind = "ntp_fail",
                                        !.secs = NTP_FAIL_SLEEP_SEC]
                /\ SetHw(HwReset)
                /\ faults' = faults + 1
                /\ UNCHANGED <<variant, currentState, resetReason, rtcValid,
                               synced, wokeFrom, phase, symVars, isrVars,
                               timeinfo>>
           ELSE IF boot /\ ~attach
           THEN /\ Reboot("sw", "none", t1)
                /\ faults' = faults + 1
                /\ it' = [NoIter EXCEPT !.kind = "restart"]
                /\ UNCHANGED wakeAt
           ELSE /\ pc' = "loop"
                /\ currentState' = "STATE_RUNNING"
                /\ faults' = IF ntp THEN faults ELSE faults + 1
                /\ isScheduledWake' = flag
                /\ synced' = ntp
                /\ rtcValid' = (rtcValid \/ ntp)
                /\ SetHw(IF boot THEN startTransmission(HwReset) ELSE HwReset)
                /\ now' = IF boot THEN t1 + 1 ELSE t1
                /\ uptime' = IF boot THEN d + 1 ELSE d
                /\ it' = [NoIter EXCEPT !.started = boot]
                /\ UNCHANGED <<variant, resetReason, wokeFrom, phase,
                               symVars, isrVars, timeinfo, wakeAt>>

---------------------------------------------------------------------------
(* Actions                                                                 *)

Setup ==
    /\ variant \in Variants
    /\ pc = "setup"
    /\ now + MaxSetupSecs + 2 < Horizon
    /\ setup
    /\ fired' = (pc' = "loop" /\ it'.started)
    /\ looped' = FALSE
    /\ loopGap' = IF pc' = "loop" THEN 1 ELSE 0

Loop ==
    /\ variant \in Variants
    /\ pc = "loop"
    /\ ~looped
    /\ loop
    /\ fired' = IF it'.started THEN TRUE ELSE (jjyTimerHandle' /\ fired)
    /\ looped' = (pc' = "loop" /\ ~it'.started)
    /\ loopGap' = 0

OnTimer ==
    /\ variant \in Variants
    /\ pc = "loop"
    /\ jjyTimerHandle
    /\ ~fired
    /\ onTimer
    /\ fired' = TRUE
    /\ UNCHANGED <<looped, loopGap>>

WindowAt(t, u) ==
    Window(variant, LocaltimeR(variant, LoopTimeArg(variant, t)),
           BootTest(variant, isScheduledWake, u))

\* the seconds ahead, within a stride, at which the window differs from now's
Changes ==
    LET w0 == WindowAt(now, uptime)
    IN {k \in 1 .. StrideLong : WindowAt(now + k, Up(uptime, k)) # w0}

\* up to the second before the next change of window, then onto it
TickStep ==
    LET c == Changes
    IN IF c = {} THEN StrideLong
       ELSE LET first == CHOOSE k \in c : \A j \in c : k <= j
            IN IF first > 1 THEN first - 1 ELSE 1

\* time passes while loop() sits in delay(100); the clock is observed at
\* every second near a change of window and at strides in between
Tick ==
    /\ variant \in Variants
    /\ pc = "loop"
    /\ looped
    /\ jjyTimerHandle => fired
    /\ LET k == TickStep
       IN /\ now + k < Horizon
          /\ now' = now + k
          /\ uptime' = Up(uptime, k)
    /\ looped' = FALSE
    /\ fired' = FALSE
    /\ UNCHANGED <<pc, bootVars, phase, hwVars, isrVars, symVars, timeinfo,
                   wakeAt, loopGap, it>>

\* esp_light_sleep_start() returning a second before the armed time
WakeLightEarly ==
    /\ pc = "light"
    /\ wakeAt < Horizon
    /\ pc' = "loop"
    /\ now' = wakeAt - 1
    /\ uptime' = Up(uptime, wakeAt - 1 - now)
    /\ looped' = FALSE
    /\ UNCHANGED <<bootVars, phase, hwVars, isrVars, symVars, timeinfo,
                   wakeAt, fired, loopGap, it>>

\* the wake timer ends esp_light_sleep_start(); loop() returns
WakeLight ==
    /\ pc = "light"
    /\ wakeAt < Horizon
    /\ pc' = "loop"
    /\ now' = wakeAt
    /\ uptime' = Up(uptime, wakeAt - now)
    /\ looped' = FALSE
    /\ UNCHANGED <<bootVars, phase, hwVars, isrVars, symVars, timeinfo,
                   wakeAt, fired, loopGap, it>>

\* the wake timer ends deep sleep: the chip resets
WakeDeep ==
    /\ pc = "deep"
    /\ wakeAt < Horizon
    /\ Reboot("deepsleep",
              IF it.kind = "deep" THEN "daytime" ELSE "ntp_fail", wakeAt)
    /\ it' = NoIter
    /\ UNCHANGED <<wakeAt, stepVars, faults>>

\* the instant of local time h:m:s on day `day`
AtLocal(day, h, m, s) == day * DaySecs + h * 3600 + m * 60 + s - GMT_OFFSET_SEC

---------------------------------------------------------------------------
(* The Ticker sketch: setup(), loop(), startTransmission,                  *)
(* stopTransmission, jjyHandler                                            *)

\* getJJYCode() at time t: the same frame, with 0xFF for a marker
getJJYCode(t) ==
    LET c == EncodeTm(TmOf(t + TIME_SHIFT_SEC + GMT_OFFSET_SEC))
    IN IF c = CODE_MARKER THEN TICKER_CODE_MARKER ELSE c

\* the stop without its ledcDetach
stopTransmissionTickerKeepsPwm(m) ==
    [m EXCEPT !.jjyTimerHandle = FALSE, !.pinAnt = "HIGH"]

\* tickJjy.detach(); ledcDetach; pinMode; digitalWrite(PIN_TRX, HIGH)
stopTransmissionTicker(m) ==
    [m EXCEPT !.jjyTimerHandle = FALSE, !.pwmAttached = FALSE,
              !.pinAnt = "HIGH"]

\* waitMs in the Ticker sketch's startTransmission when tv_usec = usec
waitMs(usec) == 1000 - (usec \div 1000)

\* milliseconds the Ticker sketch's startTransmission spends in delay()
delayMs(usec) ==
    IF waitMs(usec) > 0 /\ waitMs(usec) < 1000 THEN waitMs(usec) ELSE 0

\* ledcAttach succeeded; tickJjy.attach_ms(100, jjyHandler)
startTransmissionTicker(m) ==
    [m EXCEPT !.pwmAttached = TRUE, !.antDuty = 0, !.jjyTimerHandle = TRUE]

isNightTxTime(tm) == InNight(tm) /\ tm.tm_min < NIGHT_TX_MINUTES

\* the handler without its test for a zero bit at slot 5
jjyHandlerNoZeroTest(slot, t, duty) ==
    LET c == getJJYCode(t)
    IN IF slot = 0 THEN DUTY_50
       ELSE IF slot = 2 /\ c = TICKER_CODE_MARKER THEN 0
       ELSE IF slot = 5 /\ c # TICKER_CODE_MARKER THEN 0
       ELSE IF slot = 8 THEN 0
       ELSE duty

\* the duty after jjyHandler ran in 100 ms slot `slot` of second t
jjyHandler(slot, t, duty) ==
    LET c == getJJYCode(t)
    IN IF slot = 0 THEN DUTY_50
       ELSE IF slot = 2 /\ c = TICKER_CODE_MARKER THEN 0
       ELSE IF slot = 5 /\ c # 0 /\ c # TICKER_CODE_MARKER THEN 0
       ELSE IF slot = 8 THEN 0
       ELSE duty

\* startTransmission() called from loop(): wait for the second to roll
\* over, set STATE_TRANSMITTING, attach LEDC (restart on failure), attach
\* the Ticker
tickerStart(rec, attach) ==
    IF ~attach
    THEN /\ Reboot("sw", "none", now + 1)
         /\ faults' = faults + 1
         /\ it' = [rec EXCEPT !.kind = "restart"]
         /\ UNCHANGED wakeAt
    ELSE /\ SetHw(startTransmissionTicker(Hw))
         /\ currentState' = "STATE_TRANSMITTING"
         /\ now' = now + 1
         /\ uptime' = Up(uptime, 1)
         /\ rtcValid' = TRUE
         /\ it' = [rec EXCEPT !.started = TRUE]
         /\ UNCHANGED <<pc, variant, resetReason, synced, isScheduledWake,
                        wokeFrom, faults, phase, symVars, isrVars, wakeAt>>

tickerLoop ==
    LET tm == LocaltimeR("base", now)
        rec == [NoIter EXCEPT !.window = currentState, !.up = uptime,
                              !.reason = resetReason,
                              !.handle = jjyTimerHandle, !.now = now]
    IN /\ timeinfo' = tm
       /\ IF currentState = "STATE_SYNCING"
          THEN \E ntp \in Outcomes, attach \in Outcomes :
                 IF ntp \/ rtcValid
                 THEN tickerStart(rec, attach)
                 ELSE \* getLocalTime() gave up after 5 s; delay(1000)
                      /\ now' = now + 5 + 1
                      /\ uptime' = Up(uptime, 5 + 1)
                      /\ faults' = faults + 1
                      /\ it' = rec
                      /\ UNCHANGED <<pc, variant, currentState, resetReason,
                                     rtcValid, synced, isScheduledWake,
                                     wokeFrom, phase, hwVars, symVars,
                                     isrVars, wakeAt>>
          ELSE IF currentState = "STATE_TRANSMITTING"
          THEN LET close == ~InBootWindow(uptime) /\ ~isNightTxTime(tm)
               IN /\ SetHw(IF close THEN stopTransmissionTicker(Hw) ELSE Hw)
                  /\ currentState' =
                        IF close THEN "STATE_LOCKED_IDLE" ELSE currentState
                  /\ now' = now + 1
                  /\ uptime' = Up(uptime, 1)
                  /\ it' = [rec EXCEPT !.stopped = close]
                  /\ UNCHANGED <<pc, variant, resetReason, rtcValid, synced,
                                 isScheduledWake, wokeFrom, faults, phase,
                                 symVars, isrVars, wakeAt>>
          ELSE IF isNightTxTime(tm)
          THEN \E attach \in Outcomes : tickerStart(rec, attach)
          ELSE /\ pc' = "light"
               /\ wakeAt' = now + TICKER_IDLE_SLEEP_SEC
               /\ it' = [rec EXCEPT !.kind = "light",
                                    !.secs = TICKER_IDLE_SLEEP_SEC]
               /\ UNCHANGED <<bootVars, clockVars, hwVars, symVars, isrVars>>

\* the transmission windows the Ticker sketch is followed through
TickerEnd == AtLocal(MaxDays, 0, 16, 0)

TickerSetup ==
    /\ variant = "ticker"
    /\ pc = "setup"
    /\ \E d \in 1 .. MaxSetupSecs, wifi \in Outcomes :
         IF ~wifi
         THEN \* the captive portal timed out: ESP.restart()
              /\ Reboot("sw", "none", now + 2 + d)
              /\ faults' = faults + 1
              /\ UNCHANGED wakeAt
         ELSE /\ pc' = "loop"
              /\ currentState' = "STATE_SYNCING"
              /\ now' = now + 2 + d
              /\ uptime' = d
              /\ UNCHANGED <<variant, resetReason, rtcValid, synced,
                             isScheduledWake, wokeFrom, faults, phase,
                             hwVars, symVars, isrVars, timeinfo, wakeAt>>
    /\ it' = NoIter
    /\ UNCHANGED stepVars

TickerLoop ==
    /\ variant = "ticker"
    /\ pc = "loop"
    /\ now < TickerEnd
    /\ tickerLoop
    /\ fired' = FALSE
    /\ UNCHANGED <<looped, loopGap>>

\* the Ticker calls jjyHandler in one of the ten slots of this second
TickerFire ==
    /\ variant = "ticker"
    /\ pc = "loop"
    /\ jjyTimerHandle
    /\ ~fired
    /\ \E slot \in 0 .. 9 : antDuty' = jjyHandler(slot, now, antDuty)
    /\ fired' = TRUE
    /\ UNCHANGED <<pc, bootVars, clockVars, jjyTimerHandle, pwmAttached,
                   pinAnt, pinLed, symVars, isrVars, timeinfo, wakeAt,
                   looped, loopGap, it>>

---------------------------------------------------------------------------
(* Spec: boot, schedule, sleep and wake, at whole seconds                  *)

\* local times of day at which power is applied
BootTimes ==
    {AtLocal(1, 23, 39, 57), AtLocal(1, 23, 44, 58), AtLocal(1, 2, 9, 59),
     AtLocal(1, 4, 49, 30), AtLocal(1, 12, 0, 0), AtLocal(1, 0, 4, 0)}

PowerOn(t) ==
    /\ pc = "setup"
    /\ currentState = InitialState(variant)
    /\ resetReason = "poweron"
    /\ wokeFrom = "none"
    /\ faults = 0
    /\ rtcValid = FALSE
    /\ synced = FALSE
    /\ now = t
    /\ phase = 0
    /\ uptime = 0
    /\ isScheduledWake = FALSE
    /\ jjyTimerHandle = FALSE
    /\ pwmAttached = FALSE
    /\ antDuty = 0
    /\ pinAnt = HwResetOf(variant).pinAnt
    /\ pinLed = "HIGH"
    /\ currentSecondCode = CODE_UNSET
    /\ frame = <<>>
    /\ currentSlot100ms = 0
    /\ lastSec = -1
    /\ timeinfo = TmZero
    /\ wakeAt = 0
    /\ fired = FALSE
    /\ looped = FALSE
    /\ loopGap = 0
    /\ it = NoIter
    /\ codeFor = -1
    /\ fire = NoFire
    /\ run = NoRun

\* the Ticker sketch is powered ten seconds before the pre-midnight minute
TickerBootTimes == {AtLocal(1, 23, 49, 50)}

Init ==
    \/ variant \in Variants /\ \E t \in BootTimes : PowerOn(t)
    \/ variant = "ticker" /\ \E t \in TickerBootTimes : PowerOn(t)

Next ==
    \/ Setup
    \/ Loop
    \/ OnTimer
    \/ Tick
    \/ WakeLight
    \/ WakeDeep
    \/ TickerSetup
    \/ TickerLoop
    \/ TickerFire

Spec == Init /\ [][Next]_vars

---------------------------------------------------------------------------
(* SpecISR: the first seconds of a transmission, in 100 ms intervals.      *)
(* In each interval the timer, once started, fires once and loop() runs    *)
(* at most once, in either order; loop()'s period is delay(100) plus its   *)
(* own work, so it misses at most every other interval.                    *)

TickI ==
    /\ pc = "loop"
    /\ jjyTimerHandle => fired
    /\ looped \/ loopGap = 0
    /\ uptime < MaxSetupSecs + 1 + MaxIsrSecs
    /\ phase' = (phase + 1) % 10
    /\ now' = IF phase = 9 THEN now + 1 ELSE now
    /\ uptime' = IF phase = 9 THEN Up(uptime, 1) ELSE uptime
    /\ fired' = FALSE
    /\ looped' = FALSE
    /\ loopGap' = IF looped THEN 0 ELSE loopGap + 1
    /\ UNCHANGED <<pc, bootVars, hwVars, isrVars, symVars, timeinfo, wakeAt,
                   it>>

\* power is applied shortly before hh:40:00 (seconds 59 and 0 carry
\* markers, second 1 the minute's 40-bit, second 2 a zero bit)
IsrBootTimes == {AtLocal(1, 12, 39, 56), AtLocal(1, 0, 39, 56)}

InitISR == variant \in Variants /\ \E t \in IsrBootTimes : PowerOn(t)

NextISR == Setup \/ Loop \/ OnTimer \/ TickI

SpecISR == InitISR /\ [][NextISR]_vars

---------------------------------------------------------------------------
(* SpecSched: one pass of the scheduler from every sampled time of day     *)

SchedMinutes == {0, 14, 15, 20, 49, 50, 59}

SchedSeconds == {0, 50, 59}

UptimeSamples == {MaxSetupSecs + 1, UptimeCap - 1, UptimeCap}

\* the timer can be running at loop() entry only if the boot test has been
\* running, has just ended, or the previous second was in a night
\* transmit window
RunningAtEntry(v, flag, up, t) ==
    LET prev == LocaltimeR(v, LoopTimeArg(v, t - 1))
    IN \/ BootTest(v, flag, up)
       \/ ~flag /\ up = UptimeCap
       \/ InNight(prev) /\ prev.tm_min < NIGHT_TX_MINUTES

\* loop() is entered at time t with the timer running or not
LoopEntry(t, reason, up, handle) ==
    LET flag == HasWakeFlag(variant) /\ reason = "deepsleep"
        prev == LoopTimeArg(variant, t - 1)
    IN /\ BootTest(variant, flag, up) => handle
       /\ handle => RunningAtEntry(variant, flag, up, t)
       /\ pc = "loop"
       /\ currentState = "STATE_RUNNING"
       /\ resetReason = reason
       /\ wokeFrom = IF reason = "deepsleep" THEN "daytime" ELSE "none"
       /\ faults = 0
       /\ rtcValid = TRUE
       /\ synced = TRUE
       /\ now = t
       /\ phase = 0
       /\ uptime = up
       /\ isScheduledWake = flag
       /\ jjyTimerHandle = handle
       /\ pwmAttached = handle
       /\ antDuty = 0
       /\ pinAnt = "LOW"
       /\ pinLed = "HIGH"
       /\ currentSecondCode =
              IF handle THEN calculateJJYCodeForTime(variant, prev + TIME_SHIFT_SEC)
              ELSE CODE_UNSET
       /\ currentSlot100ms = 0
       /\ frame = <<>>
       /\ lastSec = IF handle THEN t - 1 ELSE -1
       /\ codeFor = IF handle THEN t - 1 + TIME_SHIFT_SEC ELSE -1
       /\ timeinfo = IF handle THEN LocaltimeR(variant, prev) ELSE TmZero
       /\ wakeAt = 0
       /\ fired = FALSE
       /\ looped = FALSE
       /\ loopGap = 0
       /\ it = NoIter
       /\ fire = NoFire
       /\ run = NoRun

InitSched ==
    /\ variant \in Variants
    /\ \E h \in 0 .. 23, m \in SchedMinutes, s \in SchedSeconds,
          reason \in {"poweron", "deepsleep"}, up \in UptimeSamples,
          handle \in BOOLEAN :
            LoopEntry(AtLocal(1, h, m, s), reason, up, handle)

\* the last two statements of loop(), taken at any time of day:
\* if (jjyTimerHandle) stopTransmission(); enterDaytimeDeepSleep();
DeepSleepCall ==
    LET tm == LocaltimeR(variant, LoopTimeArg(variant, now))
        rec == [NoIter EXCEPT !.up = uptime, !.wake = isScheduledWake,
                              !.reason = resetReason,
                              !.handle = jjyTimerHandle, !.now = now,
                              !.stopped = jjyTimerHandle]
    IN /\ pc = "loop"
       /\ ~looped
       /\ timeinfo' = tm
       /\ enterDaytimeDeepSleep(stopTransmission(Hw), rec, tm)
       /\ UNCHANGED <<bootVars, symVars, isrVars, stepVars>>

NextSched == Loop \/ DeepSleepCall

SpecSched == InitSched /\ [][NextSched]_vars

---------------------------------------------------------------------------
(* SpecMod: startTransmission, stopTransmission and the periodic handler   *)
(* called in any order after setup(), in each of the four sketches         *)

ModMaxSecs == 6

ModBootTimes == {AtLocal(1, 12, 0, 0)}

ModEnd == AtLocal(1, 12, 0, 0) + MaxSetupSecs + 2 + ModMaxSecs

\* startTransmission(); `aligned`: the call falls on the first millisecond
\* of a second, where the Ticker sketch skips its delay
ModStart ==
    /\ pc = "loop"
    /\ now < ModEnd
    /\ LET rec == [NoIter EXCEPT !.kind = "start", !.up = uptime,
                                 !.reason = resetReason,
                                 !.handle = jjyTimerHandle, !.now = now]
       IN \E attach \in Outcomes :
            IF variant = "ticker"
            THEN /\ tickerStart(rec, attach)
                 /\ attach => UNCHANGED timeinfo
            ELSE IF ~jjyTimerHandle /\ ~attach
            THEN /\ Reboot("sw", "none", now)
                 /\ faults' = faults + 1
                 /\ it' = [rec EXCEPT !.kind = "restart"]
                 /\ UNCHANGED wakeAt
            ELSE /\ Transmit(rec)
                 /\ UNCHANGED <<bootVars, symVars, isrVars, timeinfo>>
    /\ UNCHANGED stepVars

\* stopTransmission()
ModStop ==
    /\ pc = "loop"
    /\ SetHw(IF variant = "ticker" THEN stopTransmissionTicker(Hw)
             ELSE stopTransmission(Hw))
    /\ currentState' =
          IF variant = "ticker" THEN "STATE_LOCKED_IDLE" ELSE currentState
    /\ it' = [NoIter EXCEPT !.kind = "stop", !.up = uptime,
                            !.reason = resetReason,
                            !.handle = jjyTimerHandle, !.now = now,
                            !.stopped = jjyTimerHandle]
    /\ UNCHANGED <<pc, variant, resetReason, rtcValid, synced,
                   isScheduledWake, wokeFrom, faults, clockVars, symVars,
                   isrVars, timeinfo, wakeAt, stepVars>>

\* loop()'s refresh of the symbol for the second it polls
ModSymbol ==
    /\ pc = "loop"
    /\ variant \in Variants
    /\ secondChanged(now, lastSec)
    /\ lastSec' = now
    /\ currentSecondCode' =
          calculateJJYCodeForTime(variant,
                                  LoopTimeArg(variant, now) + TIME_SHIFT_SEC)
    /\ codeFor' = now + TIME_SHIFT_SEC
    /\ UNCHANGED <<pc, bootVars, clockVars, hwVars, isrVars, timeinfo,
                   wakeAt, stepVars, it, frame>>

\* one firing of the periodic handler
ModFire ==
    /\ pc = "loop"
    /\ jjyTimerHandle
    /\ IF variant = "ticker"
       THEN /\ \E slot \in 0 .. 9 : antDuty' = jjyHandler(slot, now, antDuty)
            /\ UNCHANGED <<pc, bootVars, clockVars, jjyTimerHandle,
                           pwmAttached, pinAnt, pinLed, symVars, isrVars,
                           timeinfo, wakeAt, it>>
       ELSE onTimer
    /\ UNCHANGED stepVars

InitMod ==
    /\ variant \in Variants \cup {"ticker"}
    /\ \E t \in ModBootTimes : PowerOn(t)

NextMod ==
    \/ Setup
    \/ TickerSetup
    \/ ModStart
    \/ ModStop
    \/ ModSymbol
    \/ ModFire

SpecMod == InitMod /\ [][NextMod]_vars

---------------------------------------------------------------------------
(* SpecEnc: calculateJJYCodeForTime applied to sampled instants            *)

EncMaxDays == 1100

\* localtime_r on the instant t, as loop() passes it to the encoder
EncTm(t) == LocaltimeR("base", LoopTimeArg("base", t))

\* every second of one local day
EncDay == {AtLocal(1, 0, 0, 0) + k : k \in 0 .. DaySecs - 1}

\* one minute of every day up to the end of the next leap year
EncDays == {AtLocal(d, 12, 34, s) : d \in 0 .. EncMaxDays, s \in 0 .. 59}

\* the last minute of a year, in each year of a century
EncYearTms ==
    {[EncTm(AtLocal(1, 23, 59, s)) EXCEPT !.tm_year = 100 + y] :
        y \in 0 .. 99, s \in 0 .. 59}

\* calculateJJYCodeForTime after its localtime_r: the symbol for t_enc
EncodeAt ==
    /\ pc = "loop"
    /\ codeFor = -1
    /\ currentSecondCode' = EncodeTm(timeinfo)
    /\ codeFor' = now
    /\ UNCHANGED <<pc, bootVars, clockVars, hwVars, isrVars, lastSec,
                   timeinfo, wakeAt, stepVars, it, frame>>

InitEnc ==
    /\ variant = "base"
    /\ \/ now \in EncDay \cup EncDays /\ timeinfo = EncTm(now)
       \/ now = AtLocal(1, 23, 59, 0) /\ timeinfo \in EncYearTms
    /\ pc = "loop"
    /\ currentState = "STATE_RUNNING"
    /\ resetReason = "poweron"
    /\ wokeFrom = "none"
    /\ faults = 0
    /\ rtcValid = TRUE
    /\ synced = TRUE
    /\ phase = 0
    /\ uptime = UptimeCap
    /\ isScheduledWake = FALSE
    /\ jjyTimerHandle = FALSE
    /\ pwmAttached = FALSE
    /\ antDuty = 0
    /\ pinAnt = "LOW"
    /\ pinLed = "HIGH"
    /\ currentSecondCode = CODE_UNSET
    /\ frame = <<>>
    /\ currentSlot100ms = 0
    /\ lastSec = -1
    /\ codeFor = -1
    /\ wakeAt = 0
    /\ fired = FALSE
    /\ looped = FALSE
    /\ loopGap = 0
    /\ it = NoIter
    /\ fire = NoFire
    /\ run = NoRun

\* the encoder called for each second of the minute that starts at `now`
EncodeMinute ==
    /\ pc = "loop"
    /\ codeFor = now
    /\ timeinfo.tm_sec = 0
    /\ frame = <<>>
    /\ frame' = [s \in 1 .. 60 |-> EncodeTm([timeinfo EXCEPT !.tm_sec = s - 1])]
    /\ UNCHANGED <<pc, bootVars, clockVars, hwVars, isrVars,
                   currentSecondCode, lastSec, codeFor, timeinfo, wakeAt,
                   stepVars, it>>

NextEnc == EncodeAt \/ EncodeMinute

SpecEnc == InitEnc /\ [][NextEnc]_vars

---------------------------------------------------------------------------
(* SpecSleep: enterLightSleep called with small arguments from every       *)
(* sampled loop() entry                                                    *)

MaxSleepArg == 2

\* enterLightSleep(seconds), the modulator left as it is
LightSleepCall ==
    LET rec == [NoIter EXCEPT !.up = uptime, !.wake = isScheduledWake,
                              !.reason = resetReason,
                              !.handle = jjyTimerHandle, !.now = now]
    IN /\ pc = "loop"
       /\ \E seconds \in 0 .. MaxSleepArg : enterLightSleep(Hw, rec, seconds)
       /\ UNCHANGED <<bootVars, symVars, isrVars, timeinfo, stepVars>>

NextSleep == LightSleepCall

SpecSleep == InitSched /\ [][NextSleep]_vars

---------------------------------------------------------------------------
(* SpecAlign: startTransmission called at 00:00:00 with the clock's        *)
(* microsecond component at sampled values                                 *)

USEC_PER_SEC == 1000000

\* tv_usec: around the start and the end of a second, at the millisecond
\* edges in between, and at odd values across the second
UsecSamples ==
    (0 .. 2100) \cup (USEC_PER_SEC - 2100 .. USEC_PER_SEC - 1)
    \cup {k * 1000 + d : k \in 1 .. 999, d \in {-1, 0, 1}}
    \cup {k * 997 : k \in 1 .. 1003}

AlignTime == AtLocal(1, 0, 0, 0)

\* the Ticker sketch's loop() entered in STATE_LOCKED_IDLE after the boot
\* test
TickerIdleEntry(t) ==
    /\ pc = "loop"
    /\ currentState = "STATE_LOCKED_IDLE"
    /\ resetReason = "poweron"
    /\ wokeFrom = "none"
    /\ faults = 0
    /\ rtcValid = TRUE
    /\ synced = FALSE
    /\ now = t
    /\ phase = 0
    /\ uptime = UptimeCap
    /\ isScheduledWake = FALSE
    /\ jjyTimerHandle = FALSE
    /\ pwmAttached = FALSE
    /\ antDuty = 0
    /\ pinAnt = "HIGH"
    /\ pinLed = "HIGH"
    /\ currentSecondCode = CODE_UNSET
    /\ currentSlot100ms = 0
    /\ frame = <<>>
    /\ lastSec = -1
    /\ codeFor = -1
    /\ timeinfo = LocaltimeR("base", t - 1)
    /\ wakeAt = t
    /\ fired = FALSE
    /\ looped = FALSE
    /\ loopGap = 0
    /\ it = NoIter
    /\ fire = NoFire
    /\ run = NoRun

\* microseconds startTransmission waits when gettimeofday gives tv_usec
alignWait(v, usec) ==
    IF v = "ticker" THEN delayMs(usec) * 1000 ELSE usecToWait(usec)

\* startTransmission() with ledcAttach succeeding; the record keeps tv_usec
\* (now2) and the microseconds waited (secs)
AlignedStart ==
    /\ pc = "loop"
    /\ ~jjyTimerHandle
    /\ \E usec \in UsecSamples :
         LET w == alignWait(variant, usec)
             end == usec + w
         IN /\ it' = [NoIter EXCEPT !.kind = "start", !.up = uptime,
                                    !.reason = resetReason, !.now = now,
                                    !.now2 = usec, !.secs = w,
                                    !.started = TRUE]
            /\ now' = now + end \div USEC_PER_SEC
            /\ phase' = (end % USEC_PER_SEC) \div 100000
    /\ SetHw(IF variant = "ticker" THEN startTransmissionTicker(Hw)
             ELSE startTransmission(Hw))
    /\ currentState' =
          IF variant = "ticker" THEN "STATE_TRANSMITTING" ELSE currentState
    /\ fired' = TRUE
    /\ UNCHANGED <<pc, variant, resetReason, rtcValid, synced,
                   isScheduledWake, wokeFrom, faults, uptime, symVars,
                   isrVars, timeinfo, wakeAt, looped, loopGap>>

InitAlign ==
    \/ /\ variant \in Variants
       /\ LoopEntry(AlignTime, "poweron", UptimeCap, FALSE)
    \/ /\ variant = "ticker"
       /\ TickerIdleEntry(AlignTime)

NextAlign == AlignedStart

SpecAlign == InitAlign /\ [][NextAlign]_vars

---------------------------------------------------------------------------
(* SpecWave: the first seconds of the transmission that follows power-on,  *)
(* in each of the four sketches, with the periodic handler called once in  *)
(* every 100 ms interval, after loop() has refreshed the symbol            *)

WaveSecs == 6

\* the Ticker sketch's loop() up to its call of startTransmission(); the
\* Ticker attached there first calls the handler one period later
WaveBegin ==
    /\ variant = "ticker"
    /\ pc = "loop"
    /\ ~jjyTimerHandle
    /\ tickerLoop
    /\ fired' = jjyTimerHandle'
    /\ UNCHANGED <<looped, loopGap>>

\* one call of the periodic handler, in the 100 ms interval `phase`
WaveFire ==
    /\ pc = "loop"
    /\ jjyTimerHandle
    /\ ~fired
    /\ IF variant = "ticker"
       THEN LET duty == jjyHandler(phase, now, antDuty)
                c == getJJYCode(now)
            IN /\ antDuty' = duty
               /\ fire' = [slot |-> phase, code |-> c, codeFor |-> now,
                           at |-> now, duty |-> duty, first |-> (fire.at < 0)]
               /\ run' = NextRun(run, phase, c, duty)
               /\ UNCHANGED <<pc, bootVars, clockVars, jjyTimerHandle,
                              pwmAttached, pinAnt, pinLed, symVars,
                              currentSlot100ms, timeinfo, wakeAt, it>>
       ELSE /\ lastSec = now
            /\ onTimer
    /\ fired' = TRUE
    /\ UNCHANGED <<looped, loopGap>>

\* 100 ms pass
WaveTick ==
    /\ pc = "loop"
    /\ jjyTimerHandle
    /\ fired
    /\ uptime < MaxSetupSecs + 1 + WaveSecs
    /\ phase' = (phase + 1) % 10
    /\ now' = IF phase = 9 THEN now + 1 ELSE now
    /\ uptime' = IF phase = 9 THEN Up(uptime, 1) ELSE uptime
    /\ fired' = FALSE
    /\ UNCHANGED <<pc, bootVars, hwVars, isrVars, symVars, timeinfo, wakeAt,
                   looped, loopGap, it>>

InitWave ==
    /\ variant \in Variants \cup {"ticker"}
    /\ \E t \in IsrBootTimes : PowerOn(t)

NextWave ==
    \/ Setup
    \/ TickerSetup
    \/ WaveBegin
    \/ ModSymbol
    \/ WaveFire
    \/ WaveTick

SpecWave == InitWave /\ [][NextWave]_vars

---------------------------------------------------------------------------
(* SpecDay: the esp_timer sketches followed day after day. Every boot      *)
(* starts from cleared memory, so a wake that falls past the horizon is    *)
(* counted from the day before. Fairness: the boot code and loop() run     *)
(* when the chip is awake, the hardware timer fires, the clock moves on,   *)
(* and sleeps end on their wake timer.                                     *)

\* the wake instant, counted within the days the clock is followed over
WithinHorizon(t) == IF t >= Horizon THEN t - DaySecs ELSE t

WakeDeepDay ==
    /\ pc = "deep"
    /\ Reboot("deepsleep",
              IF it.kind = "deep" THEN "daytime" ELSE "ntp_fail",
              WithinHorizon(wakeAt))
    /\ it' = NoIter
    /\ UNCHANGED <<wakeAt, stepVars, faults>>

InitDay == variant \in Variants /\ \E t \in BootTimes : PowerOn(t)

\* loop() sits in delay(100) with this instant's work done
TickReady ==
    /\ variant \in Variants
    /\ pc = "loop"
    /\ looped
    /\ jjyTimerHandle => fired

\* the clock moves on while loop() sits in delay(100): Tick, whatever the
\* length of its step
TimePasses ==
    /\ TickReady
    /\ \E k \in 1 .. StrideLong :
          /\ now + k < Horizon
          /\ now' = now + k
          /\ uptime' = Up(uptime, k)
    /\ looped' = FALSE
    /\ fired' = FALSE
    /\ UNCHANGED <<pc, bootVars, phase, hwVars, isrVars, symVars, timeinfo,
                   wakeAt, loopGap, it>>

NextDay ==
    \/ Setup
    \/ Loop
    \/ OnTimer
    \/ Tick
    \/ WakeLight
    \/ WakeDeepDay

SpecDay ==
    /\ InitDay
    /\ [][NextDay]_vars
    /\ WF_vars(Setup)
    /\ WF_vars(Loop)
    /\ WF_vars(OnTimer)
    /\ WF_vars(TimePasses)
    /\ WF_vars(WakeLight)
    /\ WF_vars(WakeDeepDay)

---------------------------------------------------------------------------
(* Properties                                                              *)

\* JST broken-down time of the instant t
LocalTm(t) == TmOf(t + GMT_OFFSET_SEC)

IsTime(tm, h, m, s) == tm.tm_hour = h /\ tm.tm_min = m /\ tm.tm_sec = s

\* the local time the last loop() iteration sampled
ItTm == LocalTm(it.now)

\* the last loop() iteration went past the boot-test rule
PastBootTest == it.window \notin {"NONE", "BOOT_TEST"}

ToNextHour(tm) == 3600 - 60 * tm.tm_min - tm.tm_sec

\* C1: a loop() iteration entered with uptime below BOOT_TX_MINUTES, on a
\* boot that is not a wake from deep sleep, selects BOOT_TEST whatever the
\* local time is; when it returns the timer is running, no sleep has been
\* requested and the device is back in loop().
C1_BootTestWhateverTheTime ==
    (it.window # "NONE" /\ it.up < BOOT_TX_MINUTES * 60
        /\ it.reason # "deepsleep")
    => /\ it.window = "BOOT_TEST"
       /\ it.kind \in {"none", "restart"}
       /\ it.kind = "none" => (jjyTimerHandle /\ pwmAttached /\ pc = "loop")

\* a boot-test iteration at noon, where the daytime rule would suspend
C1_Witness ==
    /\ it.window = "BOOT_TEST"
    /\ it.up < BOOT_TX_MINUTES * 60
    /\ it.reason = "poweron"
    /\ it.kind = "none"
    /\ jjyTimerHandle
    /\ pc = "loop"
    /\ IsTime(ItTm, 12, 0, 0)

\* C2: on a boot that is a wake from deep sleep the scheduler never selects
\* BOOT_TEST and the boot-test rule never starts the modulator, neither in
\* setup() nor in a loop() iteration.
C2_NoBootTestAfterScheduledWake ==
    (resetReason = "deepsleep" /\ wokeFrom = "daytime")
    => /\ it.window # "BOOT_TEST"
       /\ ~(it.window = "NONE" /\ it.started)

\* C3: past the boot-test rule, at local 23:m:s with m >= 50 the scheduler
\* selects PRE_MIDNIGHT_HOLD: the modulator is stopped and a light sleep of
\* exactly 3600 - 60*m - s seconds is requested, which ends at 00:00:00.
C3_PreMidnightHold ==
    (PastBootTest /\ ItTm.tm_hour = 23 /\ ItTm.tm_min >= 50)
    => /\ it.window = "PRE_MIDNIGHT_HOLD"
       /\ ~jjyTimerHandle
       /\ ~pwmAttached
       /\ it.kind = "light"
       /\ pc = "light"
       /\ it.secs = ToNextHour(ItTm)
       /\ wakeAt = it.now + it.secs
       /\ IsTime(LocalTm(wakeAt), 0, 0, 0)
       /\ LocalTm(wakeAt).dayno = ItTm.dayno + 1

\* the hold is entered at 23:59:50 with the modulator running
C3_Witness ==
    /\ it.window = "PRE_MIDNIGHT_HOLD"
    /\ it.stopped
    /\ IsTime(ItTm, 23, 59, 50)
    /\ it.secs = 10
    /\ pc = "light"

\* C4: past the boot-test rule, at local hour 0..4 the scheduler selects
\* NIGHT_TRANSMIT when the minute is below 15 (timer running when the
\* iteration returns, no sleep) and NIGHT_IDLE otherwise (modulator
\* stopped, light sleep requested).
C4_NightWindow ==
    (PastBootTest /\ ItTm.tm_hour >= 0 /\ ItTm.tm_hour < 5)
    => IF ItTm.tm_min < 15
       THEN /\ it.window = "NIGHT_TRANSMIT"
            /\ it.kind \in {"none", "restart"}
            /\ it.kind = "none" => (jjyTimerHandle /\ pwmAttached /\ pc = "loop")
       ELSE /\ it.window = "NIGHT_IDLE"
            /\ ~jjyTimerHandle
            /\ ~pwmAttached
            /\ it.kind = "light"
            /\ pc = "light"

\* at 04:15:00 the running modulator is stopped for NIGHT_IDLE
C4_Witness ==
    /\ it.window = "NIGHT_IDLE"
    /\ it.stopped
    /\ IsTime(ItTm, 4, 15, 0)
    /\ pc = "light"
    /\ ~jjyTimerHandle

\* C5: in NIGHT_IDLE at sampled local time h:m:s the requested light sleep
\* is 3600 - 60*m - s seconds and ends at (h+1):00:00; at 02:20:00 it is
\* 2400 seconds.
C5_NightIdleDuration ==
    it.window = "NIGHT_IDLE"
    => /\ it.kind = "light"
       /\ it.secs = ToNextHour(ItTm)
       /\ wakeAt = it.now + it.secs
       /\ IsTime(LocalTm(wakeAt), ItTm.tm_hour + 1, 0, 0)
       /\ IsTime(ItTm, 2, 20, 0) => it.secs = 2400

C5_Witness ==
    /\ it.window = "NIGHT_IDLE"
    /\ IsTime(ItTm, 2, 20, 0)
    /\ it.secs = 2400
    /\ pc = "light"

\* C6: past the boot-test rule, at a local time outside hours 0..4 and
\* outside 23:50..23:59 the scheduler selects DAYTIME_SUSPEND: the
\* modulator is stopped and deep sleep is entered for the seconds from the
\* instant read in enterDaytimeDeepSleep to the next 23:50:00 local.
C6_DaytimeSuspend ==
    (PastBootTest /\ ItTm.tm_hour >= 5
        /\ ~(ItTm.tm_hour = 23 /\ ItTm.tm_min >= 50))
    => /\ it.window = "DAYTIME_SUSPEND"
       /\ ~jjyTimerHandle
       /\ ~pwmAttached
       /\ it.kind = "deep"
       /\ pc = "deep"
       /\ it.secs >= 1
       /\ it.secs <= 24 * 3600
       /\ IsTime(LocalTm(it.now2 + it.secs), 23, 50, 0)

\* at 05:00:00 the running modulator is stopped and the device suspends
\* for 18 h 50 min
C6_Witness ==
    /\ it.window = "DAYTIME_SUSPEND"
    /\ it.stopped
    /\ IsTime(ItTm, 5, 0, 0)
    /\ it.now2 = it.now
    /\ it.secs = 18 * 3600 + 50 * 60
    /\ pc = "deep"

SecOfDay(tm) == tm.tm_hour * 3600 + tm.tm_min * 60 + tm.tm_sec

\* C7: the duration enterDaytimeDeepSleep computes lies in 1..86400 at
\* every time of day: the seconds to today's 23:50:00 when that is
\* strictly ahead, 24 hours more otherwise; at 23:59:50 it is 85810.
C7_DeepSleepRollover ==
    it.kind = "deep"
    => LET sod == SecOfDay(LocalTm(it.now2))
           wake == WAKEUP_HOUR * 3600 + WAKEUP_MIN * 60
       IN /\ it.secs >= 1
          /\ it.secs <= 24 * 3600
          /\ it.secs = IF wake > sod THEN wake - sod
                       ELSE wake + 24 * 3600 - sod
          /\ sod = 23 * 3600 + 59 * 60 + 50 => it.secs = 86400 - 590

C7_Witness ==
    /\ it.kind = "deep"
    /\ IsTime(LocalTm(it.now2), 23, 59, 50)
    /\ it.secs = 85810
    /\ pc = "deep"

\* C8: whenever the device is in light sleep or deep sleep the periodic
\* handler is detached and LEDC is detached, so no carrier is driven.
C8_StoppedWhileSuspended ==
    pc \in {"light", "deep"}
    => /\ ~jjyTimerHandle
       /\ ~pwmAttached
       /\ ~CarrierOn

\* a sleep entered by stopping the modulator while it drove the carrier
C8_Witness ==
    /\ pc \in {"light", "deep"}
    /\ it.stopped
    /\ antDuty = DUTY_50
    /\ ~jjyTimerHandle

\* C9: every firing of onTimer reads a currentSecondCode that loop()
\* computed for the second in which the firing happens.
C9_FiringReadsCurrentSecond ==
    fire.at >= 0 => fire.codeFor = fire.at + TIME_SHIFT_SEC

\* a subslot-0 firing that read the previous second's symbol
C9_StaleSubslot0 ==
    /\ fire.at >= 0
    /\ fire.slot = 0
    /\ fire.codeFor >= 0
    /\ fire.codeFor < fire.at + TIME_SHIFT_SEC

\* firings for which the carrier is on, by symbol
OnSlots(code) ==
    IF code = CODE_MARKER THEN 2
    ELSE IF code = CODE_HIGH THEN 5
    ELSE IF code = CODE_LOW THEN 8
    ELSE 0

\* C10: each firing writes duty DUTY_50 when its subslot is below 2
\* (MARKER), 5 (ONE) or 8 (ZERO) and duty 0 otherwise; over ten firings from
\* subslot 0 with one symbol the carrier is on for the first 2, 5 or 8.
C10_DutyBySubslot ==
    /\ fire.at >= 0
       => /\ fire.duty = (IF fire.slot < OnSlots(fire.code) THEN DUTY_50 ELSE 0)
          /\ antDuty = fire.duty
          /\ CarrierOn <=> fire.slot < OnSlots(fire.code)
    /\ run.len = 10 => (run.prefix /\ run.on = OnSlots(run.sym))

\* ten firings of a ONE second
C10_Witness ==
    /\ run.len = 10
    /\ run.sym = CODE_HIGH
    /\ run.on = 5
    /\ fire.slot = 9


\* C11: the stored subslot counter stays in 0..10; it is written only by a
\* firing of onTimer (and zeroed by a chip reset); a firing computes the
\* duty from a subslot in 0..9 that is the stored counter modulo 10, and
\* stores that subslot plus one, so that across any starts and stops each
\* firing uses the previous firing's subslot plus one modulo 10.
C11_SubslotCycle ==
    [][/\ currentSlot100ms' \in 0 .. 10
       /\ currentSlot100ms' # currentSlot100ms =>
            \/ pc' = "setup" /\ currentSlot100ms' = 0
            \/ /\ fire'.at >= 0
               /\ fire'.slot \in 0 .. 9
               /\ fire'.slot = currentSlot100ms % 10
               /\ currentSlot100ms' = fire'.slot + 1
       /\ (fire' # fire /\ fire'.at >= 0) =>
            currentSlot100ms' # currentSlot100ms]_vars

\* the first firing after the modulator was started again in the same boot
\* continues the cycle at a subslot other than 0
C11_Witness ==
    /\ fire.at >= 0
    /\ fire.first
    /\ fire.slot \in 1 .. 9
    /\ currentSlot100ms = fire.slot + 1


\* the outputs and handler state of a stopped modulator
Stopped ==
    /\ ~jjyTimerHandle
    /\ ~pwmAttached
    /\ pinAnt = HwResetOf(variant).pinAnt
    /\ pinLed = "HIGH"

\* C12: stopTransmission leaves the handler detached, LEDC detached and the
\* carrier pin and LED at their idle levels, and a second stopTransmission
\* in a row changes nothing; startTransmission called while the modulator
\* runs changes nothing: the handler and LEDC stay as they are, the duty is
\* not rewritten, the clock does not advance for an alignment and the
\* device does not restart.
C12_StartStopIdempotent ==
    [][/\ it'.kind = "stop" => Stopped'
       /\ (it.kind = "stop" /\ it'.kind = "stop") =>
            UNCHANGED <<hwVars, currentState, clockVars, pc>>
       /\ (it' # it /\ it'.kind \in {"start", "restart"} /\ it'.handle) =>
            UNCHANGED <<hwVars, currentState, clockVars, isrVars, pc>>]_vars

\* C13: when ledcAttach fails inside startTransmission, called from setup()
\* or from loop(), the device restarts at once: the next thing to run is
\* setup() after a software reset, with no periodic handler, LEDC detached
\* and no duty written, and the start is not carried on in that boot.
C13_AttachFailureRestarts ==
    it.kind = "restart" =>
        /\ pc = "setup"
        /\ resetReason = "sw"
        /\ uptime = 0
        /\ ~jjyTimerHandle
        /\ ~pwmAttached
        /\ antDuty = 0
        /\ ~CarrierOn
        /\ ~it.started

\* ledcAttach failed in a start that loop() made after the boot test
C13_Witness ==
    /\ it.kind = "restart"
    /\ it.window = "NIGHT_TRANSMIT"
    /\ pc = "setup"
    /\ faults = 1

\* the encoder has been applied to the instant `now`; timeinfo is its t_enc
Encoded == codeFor = now /\ pc = "loop" /\ timeinfo # TmZero /\ it = NoIter

MarkerSeconds == {0, 9, 19, 29, 39, 49, 59}

\* C14: the encoder returns CODE_MARKER at seconds 0, 9, 19, 29, 39, 49 and
\* 59 of every sampled minute, hour, day, year and weekday, and at no
\* other second.
C14_MarkerSeconds ==
    Encoded =>
        (currentSecondCode = CODE_MARKER <=> timeinfo.tm_sec \in MarkerSeconds)

C14_Witness ==
    /\ Encoded
    /\ IsTime(timeinfo, 23, 59, 59)
    /\ timeinfo.tm_yday = 364
    /\ timeinfo.tm_year = 199
    /\ currentSecondCode = CODE_MARKER

ZeroSeconds == {4, 14, 24, 10, 11, 20, 21, 34, 35, 38, 40} \cup (53 .. 58)

\* C15: at the reserved seconds 4, 14, 24 and the unused seconds 10, 11,
\* 20, 21, 34, 35, 38, 40 and 53..58 the encoder returns CODE_LOW for every
\* sampled minute, hour, day, year and weekday.
C15_ReservedAndUnusedZero ==
    (Encoded /\ timeinfo.tm_sec \in ZeroSeconds) =>
        currentSecondCode = CODE_LOW

\* second 4 of minute 59, whose units bit 1 is set
C15_Witness ==
    /\ Encoded
    /\ IsTime(timeinfo, 19, 59, 4)
    /\ currentSecondCode = CODE_LOW

\* the decimal number v has the BCD weight w (1, 2, 4, 8, 10, ..., 200)
HasWeight(v, w) ==
    IF w >= 100 THEN (((v \div 100) % 10) \div (w \div 100)) % 2 = 1
    ELSE IF w >= 10 THEN (((v \div 10) % 10) \div (w \div 10)) % 2 = 1
    ELSE ((v % 10) \div w) % 2 = 1

OneIff(b) == IF b THEN CODE_HIGH ELSE CODE_LOW

MinuteWeight(sec) ==
    CASE sec = 1 -> 40 [] sec = 2 -> 20 [] sec = 3 -> 10 [] sec = 5 -> 8
      [] sec = 6 -> 4 [] sec = 7 -> 2 [] sec = 8 -> 1

HourWeight(sec) ==
    CASE sec = 12 -> 20 [] sec = 13 -> 10 [] sec = 15 -> 8 [] sec = 16 -> 4
      [] sec = 17 -> 2 [] sec = 18 -> 1

\* C16: at seconds 1, 2, 3, 5, 6, 7, 8 the symbol is CODE_HIGH exactly when
\* the minute has the BCD weight 40, 20, 10, 8, 4, 2, 1, and at seconds 12,
\* 13, 15, 16, 17, 18 exactly when the hour has the BCD weight 20, 10, 8, 4,
\* 2, 1; otherwise it is CODE_LOW; for every minute 0..59 and hour 0..23.
C16_MinuteHourBits ==
    Encoded =>
        /\ timeinfo.tm_sec \in {1, 2, 3, 5, 6, 7, 8} =>
             currentSecondCode =
                OneIff(HasWeight(timeinfo.tm_min,
                                 MinuteWeight(timeinfo.tm_sec)))
        /\ timeinfo.tm_sec \in {12, 13, 15, 16, 17, 18} =>
             currentSecondCode =
                OneIff(HasWeight(timeinfo.tm_hour,
                                 HourWeight(timeinfo.tm_sec)))

\* 23:59: second 1 carries the minute's 40
C16_Witness ==
    /\ Encoded
    /\ IsTime(timeinfo, 23, 59, 1)
    /\ currentSecondCode = CODE_HIGH

DayWeight(sec) ==
    CASE sec = 22 -> 200 [] sec = 23 -> 100 [] sec = 25 -> 80 [] sec = 26 -> 40
      [] sec = 27 -> 20 [] sec = 28 -> 10 [] sec = 30 -> 8 [] sec = 31 -> 4
      [] sec = 32 -> 2 [] sec = 33 -> 1

YearWeight(sec) ==
    CASE sec = 41 -> 80 [] sec = 42 -> 40 [] sec = 43 -> 20 [] sec = 44 -> 10
      [] sec = 45 -> 8 [] sec = 46 -> 4 [] sec = 47 -> 2 [] sec = 48 -> 1

\* the binary weight of the weekday bit sent at second sec
WdayWeight(sec) == CASE sec = 50 -> 4 [] sec = 51 -> 2 [] sec = 52 -> 1

\* C17: at seconds 22, 23, 25, 26, 27, 28, 30, 31, 32, 33 the symbol is
\* CODE_HIGH exactly when the day of the year counted from 1 has the BCD
\* weight 200, 100, 80, 40, 20, 10, 8, 4, 2, 1; at seconds 41..48 exactly
\* when the two-digit year has the BCD weight 80, 40, 20, 10, 8, 4, 2, 1; at
\* seconds 50, 51, 52 exactly when bit 2, 1, 0 of the weekday (0 = Sunday)
\* is set; otherwise CODE_LOW.
C17_DayYearWeekdayBits ==
    Encoded =>
        /\ timeinfo.tm_sec \in {22, 23, 25, 26, 27, 28, 30, 31, 32, 33} =>
             currentSecondCode =
                OneIff(HasWeight(timeinfo.tm_yday + 1,
                                 DayWeight(timeinfo.tm_sec)))
        /\ timeinfo.tm_sec \in 41 .. 48 =>
             currentSecondCode =
                OneIff(HasWeight((timeinfo.tm_year + 1900) % 100,
                                 YearWeight(timeinfo.tm_sec)))
        /\ timeinfo.tm_sec \in 50 .. 52 =>
             currentSecondCode =
                OneIff((timeinfo.tm_wday \div WdayWeight(timeinfo.tm_sec))
                           % 2 = 1)

\* day 366 of a leap year on a Sunday: second 23 carries the day's 100
C17_Witness ==
    /\ Encoded
    /\ timeinfo.tm_yday = 365
    /\ timeinfo.tm_wday = 0
    /\ timeinfo.tm_sec = 23
    /\ currentSecondCode = CODE_HIGH


\* the symbol sent at second sec of the encoded minute
SymbolAt(sec) == frame[sec + 1]

\* a data symbol read as a bit
BitOf(sym) == IF sym = CODE_HIGH THEN 1 ELSE 0

\* the minute read back from seconds 1..8 (second 4 carries no weight)
DecodeMinute ==
    40 * BitOf(SymbolAt(1)) + 20 * BitOf(SymbolAt(2)) + 10 * BitOf(SymbolAt(3))
        + 8 * BitOf(SymbolAt(5)) + 4 * BitOf(SymbolAt(6))
        + 2 * BitOf(SymbolAt(7)) + BitOf(SymbolAt(8))

\* the hour read back from seconds 12..18 (second 14 carries no weight)
DecodeHour ==
    20 * BitOf(SymbolAt(12)) + 10 * BitOf(SymbolAt(13))
        + 8 * BitOf(SymbolAt(15)) + 4 * BitOf(SymbolAt(16))
        + 2 * BitOf(SymbolAt(17)) + BitOf(SymbolAt(18))

\* C18: the symbols the encoder produces at seconds 1..8 and 12..18 of a
\* minute are all CODE_HIGH or CODE_LOW and, read as BCD bits at their
\* weights, give back the minute and the hour that were encoded, for every
\* hour 0..23 and minute 0..59.
C18_MinuteHourRoundTrip ==
    frame # <<>> =>
        /\ \A sec \in (1 .. 8) \cup (12 .. 18) :
              SymbolAt(sec) \in {CODE_HIGH, CODE_LOW}
        /\ DecodeMinute = timeinfo.tm_min
        /\ DecodeHour = timeinfo.tm_hour

C18_Witness ==
    /\ frame # <<>>
    /\ timeinfo.tm_hour = 23
    /\ timeinfo.tm_min = 59
    /\ DecodeMinute = 59
    /\ DecodeHour = 23

\* the number of BCD bits set in the two-digit decimal number v
BcdOnes(v) == Cardinality({w \in {1, 2, 4, 8, 10, 20, 40, 80} : HasWeight(v, w)})

\* C19: the symbol at second 36 is CODE_HIGH exactly when the BCD-packed
\* hour has an odd number of bits set and the symbol at second 37 exactly
\* when the BCD-packed minute has; otherwise CODE_LOW; parity8 of either is
\* 0 or 1; for every hour 0..23 and minute 0..59.
C19_Parity ==
    Encoded =>
        /\ parity8(int3bcd(timeinfo.tm_hour)) \in {0, 1}
        /\ parity8(int3bcd(timeinfo.tm_min)) \in {0, 1}
        /\ timeinfo.tm_sec = 36 =>
             currentSecondCode = OneIff(BcdOnes(timeinfo.tm_hour) % 2 = 1)
        /\ timeinfo.tm_sec = 37 =>
             currentSecondCode = OneIff(BcdOnes(timeinfo.tm_min) % 2 = 1)

\* 07:56: hour 0x07 has three bits set, minute 0x56 four
C19_Witness ==
    /\ Encoded
    /\ IsTime(timeinfo, 7, 56, 36)
    /\ currentSecondCode = CODE_HIGH

\* C20: enterLightSleep called with seconds below 1 returns at once: the
\* device stays in loop(), no wake timer is armed, the LED and the other
\* outputs keep their values and the handler, the symbol, the subslot
\* counter and the clock are unchanged.
C20_ShortLightSleepNoOp ==
    [][(it' # it /\ it'.kind = "light" /\ it'.secs < 1) =>
          /\ pc' = "loop"
          /\ UNCHANGED <<pc, wakeAt, hwVars, symVars, isrVars, clockVars,
                         bootVars, timeinfo>>]_vars

\* enterLightSleep(0) returned with the modulator running
C20_Witness ==
    /\ it.kind = "light"
    /\ it.secs = 0
    /\ pc = "loop"
    /\ jjyTimerHandle
    /\ pwmAttached
    /\ wakeAt = 0

\* C21: a device in deep sleep does nothing but wake into setup() after a
\* reset, with jjyTimerHandle null, currentSecondCode unset,
\* currentSlot100ms 0 and uptime 0; and in a boot that is a wake from deep
\* sleep loop() runs only after SNTP has synchronised the clock in that
\* boot.
C21_DeepSleepRestartsAndResyncs ==
    [][/\ pc = "deep" =>
            /\ pc' = "setup"
            /\ resetReason' = "deepsleep"
            /\ ~jjyTimerHandle'
            /\ ~pwmAttached'
            /\ currentSecondCode' = CODE_UNSET
            /\ currentSlot100ms' = 0
            /\ lastSec' = -1
            /\ uptime' = 0
       /\ (resetReason' = "deepsleep" /\ pc' = "loop") => synced']_vars

\* the boot after the daytime deep sleep reaches loop()
C21_Witness ==
    /\ resetReason = "deepsleep"
    /\ wokeFrom = "daytime"
    /\ pc = "loop"
    /\ it.window = "PRE_MIDNIGHT_HOLD"

\* C22: in the esp_timer sketches a boot in which SNTP does not complete
\* ends in setup() with a deep sleep of one hour: loop() runs and the
\* modulator is started only in a boot whose clock SNTP has set, and the
\* failure sleep is armed for NTP_FAIL_SLEEP_SEC with the modulator off.
C22_SyncFailureSleepsOneHour ==
    variant \in Variants =>
        /\ pc = "loop" => synced
        /\ (pc \in {"setup", "loop"} /\ ~synced) =>
              ~jjyTimerHandle /\ ~CarrierOn
        /\ it.kind = "ntp_fail" =>
              /\ pc = "deep"
              /\ wakeAt = now + NTP_FAIL_SLEEP_SEC
              /\ ~jjyTimerHandle
              /\ ~pwmAttached

\* the one-hour sleep armed by a first boot that could not synchronise
C22_Witness ==
    /\ it.kind = "ntp_fail"
    /\ pc = "deep"
    /\ resetReason = "poweron"
    /\ wakeAt = now + 60 * 60

\* this boot is the wake from the daytime deep sleep
ScheduledWakeBoot == resetReason = "deepsleep" /\ wokeFrom = "daytime"

\* C23: in the boot that follows the scheduled 23:50 wake the boot test is
\* never selected, the modulator is off and the carrier undriven while the
\* local hour is 23, the pre-midnight light sleep ends at 00:00:00, and
\* the modulator is started only by loop() in NIGHT_TRANSMIT, at local hour
\* 0..4, aligned to a second boundary.
C23_ScheduledWakeHoldsUntilMidnight ==
    ScheduledWakeBoot =>
        /\ it.window # "BOOT_TEST"
        /\ (pc \in {"setup", "loop", "light"} /\ LocalTm(now).tm_hour = 23) =>
              ~jjyTimerHandle /\ ~pwmAttached /\ ~CarrierOn
        /\ (pc = "light" /\ it.window = "PRE_MIDNIGHT_HOLD") =>
              IsTime(LocalTm(wakeAt), 0, 0, 0)
        /\ it.started =>
              /\ it.window = "NIGHT_TRANSMIT"
              /\ LocalTm(it.now).tm_hour \in NIGHT_START_HOUR .. NIGHT_END_HOUR - 1
              /\ phase = 0

\* the first start of the boot that woke at 23:50, at midnight
C23_Witness ==
    /\ ScheduledWakeBoot
    /\ HasWakeFlag(variant)
    /\ it.started
    /\ IsTime(LocalTm(it.now), 0, 0, 0)
    /\ jjyTimerHandle

\* the modulator runs in minutes 00..14 of local hour h
TransmittingInHour(h) ==
    /\ pc = "loop"
    /\ jjyTimerHandle
    /\ LocalTm(now).tm_hour = h
    /\ LocalTm(now).tm_min < NIGHT_TX_MINUTES

\* the device light-sleeps in minutes 15..59 of local hour h, to the hour
IdleInHour(h) ==
    /\ pc = "light"
    /\ ~jjyTimerHandle
    /\ LocalTm(now).tm_hour = h
    /\ LocalTm(now).tm_min >= NIGHT_TX_MINUTES
    /\ LocalTm(wakeAt).tm_min = 0
    /\ LocalTm(wakeAt).tm_sec = 0

\* deep sleep entered at 05:00 and ending in the minute 23:50
SuspendedAtFive ==
    /\ pc = "deep"
    /\ it.kind = "deep"
    /\ LocalTm(it.now).tm_hour = NIGHT_END_HOUR
    /\ LocalTm(it.now).tm_min = 0
    /\ LocalTm(wakeAt).tm_hour = WAKEUP_HOUR
    /\ LocalTm(wakeAt).tm_min = WAKEUP_MIN

DayClockRuns ==
    /\ TickReady => now + StrideLong < Horizon
    /\ pc = "light" => wakeAt < Horizon
    /\ pc = "deep" => WithinHorizon(wakeAt) < Horizon
    /\ pc = "setup" => now + MaxSetupSecs + 2 < Horizon

SymbolOnSlots(v, c) ==
    IF v = "ticker"
    THEN (IF c = TICKER_CODE_MARKER THEN 2 ELSE IF c = 0 THEN 8 ELSE 5)
    ELSE OnSlots(c)

\* 100 ms intervals of carrier per symbol, as the README's Transmission
\* Phase lists them: "1" 0-200 ms, "0" 0-100 ms, marker 0-200 ms
ReadmeOnSlots(v, c) ==
    IF v = "ticker"
    THEN (IF c = TICKER_CODE_MARKER THEN 2 ELSE IF c = 0 THEN 1 ELSE 2)
    ELSE (IF c = CODE_MARKER THEN 2
          ELSE IF c = CODE_HIGH THEN 2
          ELSE IF c = CODE_LOW THEN 1
          ELSE 0)

\* the handler's calls are followed from a slot-0 call on (the Ticker
\* handler leaves the carrier as it is until its first slot-0 call)
FromSlot0 == variant = "ticker" => run.len > 0

HandlerStep == fire' # fire /\ fire'.at >= 0

\* a chip reset
RebootStep ==
    /\ pc' = "setup"
    /\ currentSlot100ms' = 0
    /\ currentSecondCode' = CODE_UNSET

\* a step that writes the symbol
SymbolWritten ==
    <<currentSecondCode, codeFor>>' # <<currentSecondCode, codeFor>>

\* C26: the handler's step leaves the symbol, its bookkeeping and the
\* modulator handle unchanged; the subslot counter changes only in the
\* handler's step (or a chip reset); and the symbol is written only by a
\* loop() pass whose sampled second differs from the one of the previous
\* write, which then becomes the second of the write.
C26_SingleWriter ==
    [][/\ HandlerStep =>
            UNCHANGED <<currentSecondCode, lastSec, codeFor, jjyTimerHandle>>
       /\ currentSlot100ms' # currentSlot100ms => (HandlerStep \/ RebootStep)
       /\ (SymbolWritten /\ ~RebootStep) =>
            /\ ~HandlerStep
            /\ now # lastSec
            /\ lastSec' = now
            /\ codeFor' = now + TIME_SHIFT_SEC
            /\ currentSecondCode' \in {CODE_MARKER, CODE_HIGH, CODE_LOW}]_vars

\* loop() has passed again, and the handler fired again, in a second whose
\* symbol was already written
C26_Witness ==
    /\ pc = "loop"
    /\ looped
    /\ phase >= 2
    /\ lastSec = now
    /\ codeFor = now + TIME_SHIFT_SEC
    /\ fire.at = now
    /\ fire.codeFor = codeFor
    /\ fire.slot >= 2

\* C27: every symbol the handler reads is MARKER, ONE or ZERO and was
\* written by loop() for the second of the firing or for the second before;
\* the handler never reads CODE_UNSET nor an older symbol.
C27_HandlerReadsFreshSymbol ==
    fire.at >= 0 =>
        /\ fire.code \in {CODE_MARKER, CODE_HIGH, CODE_LOW}
        /\ fire.codeFor \in {fire.at + TIME_SHIFT_SEC - 1,
                             fire.at + TIME_SHIFT_SEC}

\* a firing that read the symbol of the second before, a marker
C27_Witness ==
    /\ fire.at >= 0
    /\ fire.codeFor = fire.at + TIME_SHIFT_SEC - 1
    /\ fire.code = CODE_MARKER
    /\ jjyTimerHandle

\* C28: when stopTransmission returns, the handler and LEDC are detached,
\* the carrier is off and the carrier pin and LED are at their idle levels;
\* and for as long as no start has succeeded the handler does not run, no
\* duty is written and the carrier stays off.
C28_StoppedStaysOff ==
    [][/\ it'.kind = "stop" => (Stopped' /\ ~CarrierOn')
       /\ ~jjyTimerHandle' => (Stopped' /\ ~CarrierOn')
       /\ (~jjyTimerHandle /\ ~jjyTimerHandle' /\ ~RebootStep) =>
            (~HandlerStep /\ UNCHANGED antDuty)]_vars

\* the Ticker sketch stopped while its carrier was on
C28_Witness ==
    /\ variant = "ticker"
    /\ it.kind = "stop"
    /\ it.stopped
    /\ antDuty = DUTY_50
    /\ Stopped
    /\ ~CarrierOn

\* the last call was a start that read tv_usec and waited
Aligned == it.kind = "start" /\ it.started /\ it.now2 >= 0

\* C29 (as amended): in the esp_timer sketches the wait lasts 1000000 - u
\* microseconds, ends on the second boundary and is shorter than one second
\* except at u = 0, where it lasts one full second; in the Ticker sketch
\* the wait is a whole number of milliseconds below one second (none for
\* u < 1000) and ends less than one millisecond after a second boundary.
C29_AlignmentWait ==
    Aligned =>
        IF variant = "ticker"
        THEN /\ it.secs % 1000 = 0
             /\ it.secs < USEC_PER_SEC
             /\ it.secs = 0 <=> it.now2 < 1000
             /\ (it.now2 + it.secs) % USEC_PER_SEC < 1000
             /\ phase = 0
        ELSE /\ it.secs = USEC_PER_SEC - it.now2
             /\ it.now2 + it.secs = USEC_PER_SEC
             /\ it.secs <= USEC_PER_SEC
             /\ it.secs = USEC_PER_SEC <=> it.now2 = 0
             /\ now = it.now + 1
             /\ phase = 0

\* the busy-wait from the last microsecond of a second
C29_Witness ==
    /\ Aligned
    /\ variant = "base"
    /\ it.now2 = USEC_PER_SEC - 1
    /\ it.secs = 1
    /\ now = it.now + 1
    /\ jjyTimerHandle

\* C29 (as stated): for every u the wait lasts 1000000 - u microseconds,
\* ends on the second boundary and is strictly shorter than one second.
C29_WaitToBoundary ==
    Aligned =>
        /\ it.secs = USEC_PER_SEC - it.now2
        /\ (it.now2 + it.secs) % USEC_PER_SEC = 0
        /\ it.secs < USEC_PER_SEC

\* C30: in the sketches that have the flag, once setup() has run the
\* scheduled-wake flag is true exactly in a boot that is the timer wake
\* from the daytime deep sleep, and false in every other boot, the wake
\* from the one-hour sync-failure sleep included; it is written only by the
\* boot code.
C30_ScheduledWakeFlag ==
    [][/\ (HasWakeFlag(variant) /\ pc' # "setup") =>
            (isScheduledWake' <=> ScheduledWakeBoot')
       /\ isScheduledWake' # isScheduledWake =>
            (pc = "setup" \/ pc' = "setup")]_vars

\* loop() runs with the flag set in the boot that woke at 23:50
C30_Witness ==
    /\ variant = "prod"
    /\ pc = "loop"
    /\ isScheduledWake
    /\ ScheduledWakeBoot
    /\ LocalTm(now).tm_hour = WAKEUP_HOUR

\* the scheduler has classified a window, or the modulator runs
SchedulerActed ==
    \/ it.window # "NONE"
    \/ jjyTimerHandle
    \/ pc \in {"loop", "light"}

\* C32: in a boot that is a wake from deep sleep, the scheduler classifies
\* a window and the modulator starts only after SNTP has set the clock in
\* that boot; the time the RTC kept through the sleep is not accepted.
C32_WakeReacquiresTime ==
    (resetReason = "deepsleep" /\ SchedulerActed) => synced

\* the night transmission of a boot that woke from deep sleep and
\* synchronised
C32_Witness ==
    /\ resetReason = "deepsleep"
    /\ synced
    /\ it.window = "NIGHT_TRANSMIT"
    /\ jjyTimerHandle
    /\ rtcValid

\* C33: the first firing of onTimer after every start of the modulator,
\* a restart after a stop and a light sleep in the same boot included,
\* uses subslot 0.
C33_FirstFiringSubslot0 ==
    (fire.at >= 0 /\ fire.first) => fire.slot = 0

\* the first firing of the boot test that setup() started
C33_Witness ==
    /\ fire.at >= 0
    /\ fire.first
    /\ fire.slot = 0
    /\ it.window = "BOOT_TEST"
    /\ currentSlot100ms = 1

---------------------------------------------------------------------------
(* The scheduler as a whole                                                *)

SchedWindows == {"BOOT_TEST", "NIGHT_TRANSMIT", "NIGHT_IDLE",
                 "PRE_MIDNIGHT_HOLD", "DAYTIME_SUSPEND"}

TransmitWindows == {"BOOT_TEST", "NIGHT_TRANSMIT"}

LightWindows == {"NIGHT_IDLE", "PRE_MIDNIGHT_HOLD"}

\* a loop() iteration has run
IterationDone == it.window # "NONE"

\* what the last iteration did
KeptTransmitting == it.kind = "none" /\ pc = "loop" /\ jjyTimerHandle

WentToLightSleep == it.kind = "light" /\ pc = "light" /\ it.secs >= 1

WentToDeepSleep == it.kind = "deep" /\ pc = "deep"

RestartedDevice == it.kind = "restart" /\ pc = "setup" /\ resetReason = "sw"

\* how many of the listed outcomes the last iteration had
OutcomeCount(outcomes) == Cardinality({i \in DOMAIN outcomes : outcomes[i]})

\* the outcome belongs to the window that was selected
OutcomeOfWindow ==
    /\ KeptTransmitting => it.window \in TransmitWindows
    /\ WentToLightSleep => it.window \in LightWindows
    /\ WentToDeepSleep => it.window = "DAYTIME_SUSPEND"
    /\ RestartedDevice => (it.window \in TransmitWindows /\ ~it.handle)

\* C34 as stated: every loop() iteration selects one of the five windows and
\* does exactly one of: keep transmitting, light sleep, deep sleep.
C34_ThreeOutcomes ==
    IterationDone
    => /\ it.window \in SchedWindows
       /\ OutcomeCount(<<KeptTransmitting, WentToLightSleep,
                         WentToDeepSleep>>) = 1

\* C34: for every sampled local time, uptime and wake flag, a loop()
\* iteration selects exactly one of the five windows and does exactly one
\* of: keep transmitting (timer running, back in loop()), light sleep, deep
\* sleep, or, when ledcAttach fails in a start, restart the device; the
\* outcome is the one of the selected window.
C34_WindowTotalExclusive ==
    IterationDone
    => /\ it.window \in SchedWindows
       /\ OutcomeCount(<<KeptTransmitting, WentToLightSleep,
                         WentToDeepSleep, RestartedDevice>>) = 1
       /\ OutcomeOfWindow

\* a scheduled wake at noon goes back to deep sleep
C34_Witness ==
    /\ it.window = "DAYTIME_SUSPEND"
    /\ it.wake
    /\ it.up < UptimeCap
    /\ ItTm.tm_hour = 12
    /\ WentToDeepSleep

\* the boot-test rule applies in neither sketch
BootRuleOff == IterationDone /\ ~InBootWindow(it.up)

\* the sleep a sketch asks for in window w, from the iteration's clock
\* readings
SleepRequest(v, w) ==
    LET tm == LocaltimeR(v, LoopTimeArg(v, it.now))
    IN IF w \in LightWindows THEN secRemaining(tm)
       ELSE IF w = "DAYTIME_SUSPEND" THEN secondsToSleep(v, tm, it.now2)
       ELSE 0

\* C35: past the boot-test rule, the rule order of jjytransmitter.ino (night
\* window, then pre-midnight hold) and that of the drift-fix sketch
\* (pre-midnight hold, then night window) select the same window and ask
\* for the same sleep at every sampled local time, and the iteration that
\* ran selected that window and asked for that sleep.
C35_RuleOrderEquivalent ==
    BootRuleOff
    => LET wB == WindowBase(LocaltimeR("base", LoopTimeArg("base", it.now)),
                            FALSE)
           wD == WindowDrift(LocaltimeR("drift",
                                        LoopTimeArg("drift", it.now)), FALSE)
       IN /\ wB = wD
          /\ it.window = wB
          /\ SleepRequest("base", wB) = SleepRequest("drift", wD)
          /\ it.kind \in {"light", "deep"}
                 => it.secs = SleepRequest("base", wB)

\* the drift-fix sketch holds from 23:59:59 for one second
C35_Witness ==
    /\ variant = "drift"
    /\ BootRuleOff
    /\ it.window = "PRE_MIDNIGHT_HOLD"
    /\ IsTime(ItTm, 23, 59, 59)
    /\ it.secs = 1
    /\ pc = "light"

\* C36: in the esp_timer sketches, whenever a loop() iteration has returned
\* or gone to sleep, the timer is running exactly when the window it
\* selected is BOOT_TEST or NIGHT_TRANSMIT, and the carrier is on only while
\* the last selected window of this boot is one of those two.
C36_ModulatorFollowsWindow ==
    variant \in Variants
    => /\ (IterationDone /\ it.kind # "restart" /\ pc # "setup")
              => (jjyTimerHandle <=> it.window \in TransmitWindows)
       /\ CarrierOn => (pc = "loop" /\ it.window \in TransmitWindows)

\* a firing of the night transmission has switched the carrier on
C36_Witness ==
    /\ variant \in Variants
    /\ it.window = "NIGHT_TRANSMIT"
    /\ jjyTimerHandle
    /\ CarrierOn
    /\ fire.at >= 0
    /\ ~InBootWindow(it.up)

\* the longest sleep a daytime classification can ask for: from 05:00:00
MaxDaytimeSleep == (WAKEUP_HOUR - NIGHT_END_HOUR) * 3600 + WAKEUP_MIN * 60

\* the first 23:50:00 local time after instant t
FirstWakeAfter(t) ==
    LET target == AtLocal(LocalTm(t).dayno, WAKEUP_HOUR, WAKEUP_MIN, 0)
    IN IF target > t THEN target ELSE target + DaySecs

\* the last iteration chose DAYTIME_SUSPEND and the device is in deep sleep
DaytimeDeepSleep ==
    it.window = "DAYTIME_SUSPEND" /\ it.kind = "deep" /\ pc = "deep"

\* C37: a deep sleep entered from DAYTIME_SUSPEND asks for at most
\* 18 h 50 min and its wake timer ends at the first 23:50:00 after the time
\* the iteration classified, whatever the later clock reading in
\* enterDaytimeDeepSleep was.
C37_NeverSkipsNight ==
    DaytimeDeepSleep
    => /\ it.secs <= MaxDaytimeSleep
       /\ wakeAt = FirstWakeAfter(it.now)

\* the longest daytime sleep, asked at 05:00:00
C37_Witness ==
    /\ DaytimeDeepSleep
    /\ IsTime(ItTm, 5, 0, 0)
    /\ it.secs = MaxDaytimeSleep
    /\ wakeAt = FirstWakeAfter(it.now)

---------------------------------------------------------------------------
(* SpecWake: loop() from every sampled time of day, the light sleep it     *)
(* may enter, the wake, and the iteration after the wake                   *)

NextWake == Loop \/ WakeLight

SpecWake == InitSched /\ [][NextWake]_vars

\* the next full hour after instant t
NextHour(t) == t + ToNextHour(LocalTm(t))

\* the device is in a light sleep that NIGHT_IDLE or PRE_MIDNIGHT_HOLD asked
\* for
InWindowSleep == it.window \in LightWindows /\ pc = "light"

\* the sleep asked for is 1..3600 s long and armed for the next full hour
SleepToNextHour ==
    it.window \in LightWindows
    => /\ it.kind = "light"
       /\ it.secs \in 1 .. 3600
       /\ pc \in {"light", "loop"}
       /\ wakeAt = NextHour(it.now)

\* the wake timer ends the sleep with the clock at or after the full hour
WakeAtBoundary ==
    (InWindowSleep /\ pc' = "loop") => now' >= NextHour(it.now)

\* the iteration after the wake selects the window of the new hour
OtherWindowAfterWake ==
    (it.window \in LightWindows /\ it' # it)
    => /\ it'.window \in {"NIGHT_TRANSMIT", "DAYTIME_SUSPEND"}
       /\ it'.window = "DAYTIME_SUSPEND" <=> ItTm.tm_hour = 4
       /\ ItTm'.tm_hour # ItTm.tm_hour

\* C38: the light sleep asked for by NIGHT_IDLE and PRE_MIDNIGHT_HOLD is
\* 1..3600 s long, never 0; when its wake timer ends it the clock is at or
\* after the next full hour, and the next loop() iteration selects
\* NIGHT_TRANSMIT, or DAYTIME_SUSPEND after hour 04, never the same idle or
\* hold window again.
C38_LightSleepEndsWindow ==
    /\ []SleepToNextHour
    /\ [][WakeAtBoundary /\ OtherWindowAfterWake]_vars

\* a one-second idle sleep from 04:59:59 has ended at 05:00:00
C38_Witness ==
    /\ it.window = "NIGHT_IDLE"
    /\ it.kind = "light"
    /\ it.secs = 1
    /\ IsTime(ItTm, 4, 59, 59)
    /\ pc = "loop"
    /\ now = NextHour(it.now)
    /\ IsTime(LocalTm(now), 5, 0, 0)

---------------------------------------------------------------------------
(* SpecLate: the boot test's first seconds in 100 ms intervals, with       *)
(* loop()'s refresh of the symbol reaching the handler up to MaxLatePhase   *)
(* intervals after the second began                                        *)

LateSecs == 6

MaxLatePhase == 3

\* power is applied a few seconds before a minute, a position marker and
\* the hour bits
LateBootTimes ==
    {AtLocal(1, 12, 58, 54), AtLocal(1, 12, 39, 3), AtLocal(1, 12, 39, 10),
     AtLocal(1, 12, 37, 0)}

\* 100 ms pass; the symbol of a second is refreshed by the end of its
\* interval MaxLatePhase
TickLate ==
    /\ pc = "loop"
    /\ jjyTimerHandle
    /\ fired
    /\ phase = MaxLatePhase => lastSec = now
    /\ uptime < MaxSetupSecs + 1 + LateSecs
    /\ phase' = (phase + 1) % 10
    /\ now' = IF phase = 9 THEN now + 1 ELSE now
    /\ uptime' = IF phase = 9 THEN Up(uptime, 1) ELSE uptime
    /\ fired' = FALSE
    /\ UNCHANGED <<pc, bootVars, hwVars, isrVars, symVars, timeinfo, wakeAt,
                   looped, loopGap, it>>

InitLate == variant \in Variants /\ \E t \in LateBootTimes : PowerOn(t)

NextLate == Setup \/ ModSymbol \/ OnTimer \/ TickLate

SpecLate == InitLate /\ [][NextLate]_vars

Symbols == {CODE_MARKER, CODE_HIGH, CODE_LOW}

\* the symbol loop() computes in second t
SymbolOfSecond(t) ==
    calculateJJYCodeForTime(variant, LoopTimeArg(variant, t) + TIME_SHIFT_SEC)

\* the second whose waveform the last firing belongs to: the timer first
\* fires one period after the second boundary it was started on, so
\* subslot 9 falls on the next boundary
CycleSecond == IF fire.slot = 9 THEN fire.at - 1 ELSE fire.at

\* the last firing read a symbol written before its second
ReadPrevious == fire.codeFor < CycleSecond + TIME_SHIFT_SEC

\* C39: as long as the symbol of a second reaches the handler before its
\* subslot-2 firing, every firing of that second writes the duty an update
\* at the second boundary would have given: the firings of subslots 0 and 1
\* write it whichever of MARKER, ONE, ZERO they still read from the second
\* before.
C39_LateUpdateSameWaveform ==
    (fire.at >= 0 /\ fire.code \in Symbols
        /\ (fire.slot < 2 \/ ~ReadPrevious))
    => fire.duty = Duty(SymbolOfSecond(CycleSecond), fire.slot)

\* subslot 1 of a ZERO second fired on the marker of the second before
C39_Witness ==
    /\ fire.at >= 0
    /\ fire.slot = 1
    /\ ReadPrevious
    /\ fire.code = CODE_MARKER
    /\ SymbolOfSecond(CycleSecond) = CODE_LOW
    /\ fire.duty = DUTY_50
    /\ lastSec < now

\* the device is awake or in light sleep after an iteration of this boot
\* went past the boot-test rule
BootTestOver == variant \in Variants /\ PastBootTest /\ pc \in {"loop", "light"}

\* C40: within one boot of an esp_timer sketch, once a loop() iteration has
\* selected a window other than BOOT_TEST the boot-test rule no longer
\* applies and no later iteration of that boot selects BOOT_TEST.
C40_BootTestIsPrefix ==
    /\ [](BootTestOver => ~BootTest(variant, isScheduledWake, uptime))
    /\ [][(variant \in Variants /\ PastBootTest)
              => it'.window # "BOOT_TEST"]_vars

\* after the boot test and an idle sleep, the same boot starts the 03:00
\* transmission
C40_Witness ==
    /\ variant \in Variants
    /\ it.window = "NIGHT_TRANSMIT"
    /\ it.started
    /\ it.reason = "poweron"
    /\ ~it.wake
    /\ it.up = UptimeCap
    /\ IsTime(ItTm, 3, 0, 0)
    /\ resetReason = "poweron"
    /\ pc = "loop"

====
